---- MODULE Spec2Model ----
(***************************************************************************)
(* Windows MDM datastore (server/datastore/mysql/microsoft_mdm.go):        *)
(* command queue, response correlation, profile reconciliation.            *)
(* Tables are sets of records; a primary key is kept unique by the         *)
(* operators that write the table, as the SQL statements do.               *)
(***************************************************************************)
EXTENDS Integers, Sequences, FiniteSets, TLC

VARIABLES
    enrollments,   \* mdm_windows_enrollments
    commands,      \* windows_mdm_commands
    queue,         \* windows_mdm_command_queue
    responses,     \* windows_mdm_responses (row id = index)
    results,       \* windows_mdm_command_results
    profiles,      \* mdm_windows_configuration_profiles
    hosts,         \* hosts
    hostProfiles,  \* host_mdm_windows_profiles
    enqueued,      \* history: every (enrollment_id, command_uuid) ever queued
    inflight,      \* per device: the open transaction of MDMWindowsSaveResponse
    hostMDM,       \* host_mdm (host_id is the host's uuid)
    hostDiskEncryptionKeys,  \* host_disk_encryption_keys
    hostDisks,     \* host_disks
    enableDiskEncryption,    \* the team scopes whose config enables disk encryption
    now,           \* NOW() of the database
    ret            \* the last call: its name and returned error

\* The disk encryption signals, their configuration and the clock.
diskEncryptionVars ==
    <<hostMDM, hostDiskEncryptionKeys, hostDisks, enableDiskEncryption, now>>

vars == <<enrollments, commands, queue, responses, results, profiles, hosts,
          hostProfiles, enqueued, inflight, diskEncryptionVars, ret>>

\* SQL NULL / Go nil
NULL == "NULL"

\* ---------------------------------------------------------------- bounds
MaxResponses == 2
MaxOps == 2
MaxTargets == 2

\* ---------------------------------------------------------------- values
CmdUUIDs == {"C1", "C2"}
UnknownCmdUUID == "C9"
DeviceIDs == {"D1", "D2"}
HostUUIDs == {"H1", "H2"}
ProfileUUIDs == {"P1", "P2"}

MDMOperationTypeInstall == "install"
MDMOperationTypeRemove == "remove"
MDMDeliveryPending == "pending"
MDMDeliveryVerifying == "verifying"
MDMDeliveryVerified == "verified"
MDMDeliveryFailed == "failed"
CmdStatus == "Status"
CmdResults == "Results"
CmdAtomic == "Atomic"

SeqsUpTo(S, n) == UNION {[1..k -> S] : k \in 0..n}

Range(s) == {s[i] : i \in DOMAIN s}

\* COALESCE(a, b)
Coalesce(a, b) == IF a = NULL THEN b ELSE a

\* ------------------------------------------------------- enrollment lookup
\* SELECT ... FROM mdm_windows_enrollments WHERE mdm_device_id = ?
MDMWindowsGetEnrolledDeviceWithDeviceID(mdmDeviceID) ==
    {e \in enrollments : e.mdm_device_id = mdmDeviceID}

\* --------------------------------------------------------- command queue
\* (SELECT id FROM mdm_windows_enrollments WHERE host_uuid = ? OR mdm_device_id = ?)
ResolveEnrollmentIDs(hostUUIDOrDeviceID) ==
    {e.id : e \in {x \in enrollments :
                      x.host_uuid = hostUUIDOrDeviceID
                      \/ x.mdm_device_id = hostUUIDOrDeviceID}}

\* One INSERT INTO windows_mdm_command_queue: the scalar subquery must give
\* exactly one id (none: NULL into a key column, several: subquery error),
\* and the (enrollment_id, command_uuid) pair must be new.
mdmWindowsInsertHostCommandDB(q, hostUUIDOrDeviceID, commandUUID) ==
    LET ids == ResolveEnrollmentIDs(hostUUIDOrDeviceID)
    IN  IF Cardinality(ids) # 1
        THEN [err |-> "error", queue |-> q]
        ELSE LET row == [enrollment_id |-> CHOOSE i \in ids : TRUE,
                         command_uuid |-> commandUUID]
             IN  IF row \in q
                 THEN [err |-> "alreadyExists", queue |-> q]
                 ELSE [err |-> "ok", queue |-> q \cup {row}]

RECURSIVE InsertHostCommands(_, _, _)
InsertHostCommands(q, targets, commandUUID) ==
    IF targets = <<>>
    THEN [err |-> "ok", queue |-> q]
    ELSE LET r == mdmWindowsInsertHostCommandDB(q, Head(targets), commandUUID)
         IN  IF r.err # "ok"
             THEN r
             ELSE InsertHostCommands(r.queue, Tail(targets), commandUUID)

\* An insert of the command that replaces a stored command of the same uuid.
MDMWindowsInsertCommandForHosts_Replace(hostUUIDsOrDeviceIDs, cmd) ==
    LET unchanged == [commands |-> commands, queue |-> queue]
    IN  IF Len(hostUUIDsOrDeviceIDs) = 0
        THEN [err |-> "ok"] @@ unchanged
        ELSE LET r == InsertHostCommands(queue, hostUUIDsOrDeviceIDs,
                                         cmd.command_uuid)
             IN  IF r.err # "ok"
                 THEN [err |-> r.err] @@ unchanged
                 ELSE [err |-> "ok",
                       commands |-> {c \in commands :
                                       c.command_uuid # cmd.command_uuid}
                                    \cup {cmd},
                       queue |-> r.queue]

\* The statements of MDMWindowsInsertCommandForHosts without a transaction
\* around them: what was inserted before the error stays.
MDMWindowsInsertCommandForHosts_NoTx(hostUUIDsOrDeviceIDs, cmd) ==
    LET unchanged == [commands |-> commands, queue |-> queue]
    IN  IF Len(hostUUIDsOrDeviceIDs) = 0
        THEN [err |-> "ok"] @@ unchanged
        ELSE IF \E c \in commands : c.command_uuid = cmd.command_uuid
        THEN [err |-> "alreadyExists"] @@ unchanged
        ELSE LET r == InsertHostCommands(queue, hostUUIDsOrDeviceIDs,
                                         cmd.command_uuid)
             IN  [err |-> r.err, commands |-> commands \cup {cmd},
                  queue |-> r.queue]

\* The transaction of MDMWindowsInsertCommandForHosts: the tables it leaves
\* and the error it returns; an error rolls everything back.
MDMWindowsInsertCommandForHosts(hostUUIDsOrDeviceIDs, cmd) ==
    LET unchanged == [commands |-> commands, queue |-> queue]
    IN  IF Len(hostUUIDsOrDeviceIDs) = 0
        THEN [err |-> "ok"] @@ unchanged
        ELSE IF \E c \in commands : c.command_uuid = cmd.command_uuid
        THEN [err |-> "alreadyExists"] @@ unchanged
        ELSE LET r == InsertHostCommands(queue, hostUUIDsOrDeviceIDs,
                                         cmd.command_uuid)
             IN  IF r.err # "ok"
                 THEN [err |-> r.err] @@ unchanged
                 ELSE [err |-> "ok", commands |-> commands \cup {cmd},
                       queue |-> r.queue]

\* The query without its NOT EXISTS clause.
PendingCommands_NoAntiJoin(q_, res, deviceID) ==
    {c \in commands :
        \E q \in q_, e \in enrollments :
            /\ e.id = q.enrollment_id
            /\ c.command_uuid = q.command_uuid
            /\ e.mdm_device_id = deviceID}

\* The query of MDMWindowsGetPendingCommands over a queue and a results
\* table: queue JOIN enrollments JOIN commands, anti-joined with the results.
PendingCommands(q_, res, deviceID) ==
    {c \in commands :
        \E q \in q_, e \in enrollments :
            /\ e.id = q.enrollment_id
            /\ c.command_uuid = q.command_uuid
            /\ e.mdm_device_id = deviceID
            /\ ~ \E r \in res :
                   /\ r.enrollment_id = q.enrollment_id
                   /\ r.command_uuid = q.command_uuid}

MDMWindowsGetPendingCommands(deviceID) ==
    PendingCommands(queue, results, deviceID)

\* ----------------------------------------------------- response correlator
\* One operation of a parsed SyncML response.  Tracked stands for
\* Cmd.ShouldBeTracked(Verb), a predicate of the protocol decoder.
ProtoOp(verb, cmdRef, data, cmd, tracked) ==
    [Verb |-> verb, CmdRef |-> cmdRef, Data |-> data, Cmd |-> cmd,
     Tracked |-> tracked]

\* The loop over GetOrderedCmds(): the operations kept, by verb.
KeptOps(ops, verb) ==
    {i \in DOMAIN ops :
        /\ ops[i].Tracked
        /\ ops[i].CmdRef # NULL
        /\ ops[i].Verb = verb}

\* cmdUUIDs, as a set
TrackedCmdUUIDs(ops) ==
    {ops[i].CmdRef : i \in KeptOps(ops, CmdStatus) \cup KeptOps(ops, CmdResults)}

\* _, ok := uuidsToStatus[uuid] (uuidsToResults[uuid])
HasOpFor(ops, verb, uuid) ==
    \E i \in KeptOps(ops, verb) : ops[i].CmdRef = uuid

\* uuidsToStatus[uuid] / uuidsToResults[uuid]: the last kept operation wins
LastOpFor(ops, verb, uuid) ==
    LET idx == {i \in KeptOps(ops, verb) : ops[i].CmdRef = uuid}
    IN  ops[CHOOSE i \in idx : \A j \in idx : j <= i]

\* fleet.WindowsResponseToDeliveryStatus
WindowsResponseToDeliveryStatus(data) ==
    IF data = "200" THEN MDMDeliveryVerifying ELSE MDMDeliveryFailed

\* fleet.BuildMDMWindowsProfilePayloadFromMDMResponse
BuildMDMWindowsProfilePayloadFromMDMResponse(commandUUID, status, hostUUID) ==
    LET st == WindowsResponseToDeliveryStatus(status.Data)
    IN  [HostUUID |-> hostUUID,
         CommandUUID |-> commandUUID,
         Status |-> st,
         Detail |-> IF st = MDMDeliveryFailed
                    THEN "status " \o status.Data ELSE ""]

\* xml.Marshal(result)
XmlMarshal(result) == "<Results>" \o result.Data \o "</Results>"

\* statusCode of the loop over matchingCmds
StatusCodeFor(ops, uuid) ==
    IF /\ HasOpFor(ops, CmdStatus, uuid)
       /\ LastOpFor(ops, CmdStatus, uuid).Data # NULL
    THEN LastOpFor(ops, CmdStatus, uuid).Data
    ELSE ""

\* rawResult of the loop over matchingCmds
RawResultFor(ops, uuid) ==
    IF /\ HasOpFor(ops, CmdResults, uuid)
       /\ LastOpFor(ops, CmdResults, uuid).Data # NULL
    THEN XmlMarshal(LastOpFor(ops, CmdResults, uuid))
    ELSE ""

\* potentialProfilePayloads
PotentialProfilePayloads(ops, matchingUUIDs, hostUUID) ==
    {BuildMDMWindowsProfilePayloadFromMDMResponse(
         u, LastOpFor(ops, CmdStatus, u), hostUUID) :
       u \in {m \in matchingUUIDs :
                /\ HasOpFor(ops, CmdStatus, m)
                /\ LastOpFor(ops, CmdStatus, m).Data # NULL
                /\ LastOpFor(ops, CmdStatus, m).Cmd = CmdAtomic}}

\* Column defaults of host_mdm_windows_profiles used by an INSERT that does
\* not name the column (or names it as its own value).
HostProfileDetailDefault == ""
HostProfileCommandUUIDDefault == ""
HostProfileNameDefault == ""

\* commandUUIDs := make([]string, len(payloads)) followed by append: the
\* slice starts with len(payloads) empty strings.
PayloadCommandUUIDs(payloads) ==
    {""} \cup {p.CommandUUID : p \in payloads}

\* getMatchingHostProfilesStmt
MatchingHostProfiles(hp, hostUUID, commandUUIDs) ==
    {r \in hp : r.host_uuid = hostUUID /\ r.command_uuid \in commandUUIDs}

\* A batch update that also assigns command_uuid = VALUES(command_uuid): the
\* value of the VALUES row is the column default.
UpsertHostProfileFromResponse_OverwritesCommand(hp, hostUUID, profileUUID, detail, status) ==
    {IF r.host_uuid = hostUUID /\ r.profile_uuid = profileUUID
     THEN [r EXCEPT !.detail = detail, !.status = status,
                    !.command_uuid = HostProfileCommandUUIDDefault]
     ELSE r : r \in hp}

\* updateHostProfilesStmt for one VALUES row:
\* INSERT (host_uuid, profile_uuid, detail, status, command_uuid)
\* ON DUPLICATE KEY UPDATE detail, status
UpsertHostProfileFromResponse(hp, hostUUID, profileUUID, detail, status) ==
    IF \E r \in hp : r.host_uuid = hostUUID /\ r.profile_uuid = profileUUID
    THEN {IF r.host_uuid = hostUUID /\ r.profile_uuid = profileUUID
          THEN [r EXCEPT !.detail = detail, !.status = status]
          ELSE r : r \in hp}
    ELSE hp \cup {[profile_uuid |-> profileUUID,
                   host_uuid |-> hostUUID,
                   status |-> status,
                   operation_type |-> NULL,
                   detail |-> detail,
                   command_uuid |-> HostProfileCommandUUIDDefault,
                   profile_name |-> HostProfileNameDefault]}

RECURSIVE UpsertHostProfilesFromResponse(_, _, _)
UpsertHostProfilesFromResponse(hp, rows, payloads) ==
    IF rows = {} THEN hp
    ELSE LET hpRow == CHOOSE r \in rows : TRUE
             payload == CHOOSE p \in payloads : p.CommandUUID = hpRow.command_uuid
         IN  UpsertHostProfilesFromResponse(
                 UpsertHostProfileFromResponse(hp, hpRow.host_uuid,
                     hpRow.profile_uuid, payload.Detail, payload.Status),
                 rows \ {hpRow}, payloads)

\* A correlator that hands its payloads to the plain upsert without looking
\* for existing rows: a payload carries no profile uuid.
updateMDMWindowsHostProfileStatusFromResponseDB_Unconstrained(hp, payloads) ==
    [err |-> "ok",
     hostProfiles |->
        {r \in hp : ~ \E p \in payloads :
                        r.host_uuid = p.HostUUID /\ r.profile_uuid = ""}
        \cup {[profile_uuid |-> "", host_uuid |-> p.HostUUID,
               status |-> p.Status, operation_type |-> NULL,
               detail |-> p.Detail, command_uuid |-> p.CommandUUID,
               profile_name |-> ""] : p \in payloads}]

\* The batch update of updateMDMWindowsHostProfileStatusFromResponseDB for the
\* rows its SELECT returned, run against the table as it is when the
\* statement executes.  A matching row whose command_uuid has no payload makes
\* uuidsToPayloads[...] nil, dereferenced: a panic.  No matching row at all
\* leaves the VALUES list of the statement empty: a syntax error.
UpdateMatchingHostProfiles(hp, matching, payloads) ==
    IF \E r \in matching :
          ~ \E p \in payloads : p.CommandUUID = r.command_uuid
    THEN [err |-> "panic", hostProfiles |-> hp]
    ELSE IF matching = {}
    THEN [err |-> "error", hostProfiles |-> hp]
    ELSE [err |-> "ok",
          hostProfiles |-> UpsertHostProfilesFromResponse(hp, matching, payloads)]

\* updateMDMWindowsHostProfileStatusFromResponseDB with nothing running
\* between its SELECT and its INSERT: the table it leaves and its error.
updateMDMWindowsHostProfileStatusFromResponseDB(hp, payloads) ==
    IF payloads = {}
    THEN [err |-> "ok", hostProfiles |-> hp]
    ELSE LET hostUUID == (CHOOSE p \in payloads : TRUE).HostUUID
             matching == MatchingHostProfiles(hp, hostUUID,
                                              PayloadCommandUUIDs(payloads))
         IN  IF \E p \in payloads : p.HostUUID # hostUUID
             THEN [err |-> "error", hostProfiles |-> hp]
             ELSE UpdateMatchingHostProfiles(hp, matching, payloads)

\* insertResultsStmt for one VALUES row: ON DUPLICATE KEY UPDATE keeps
\* response_id and takes COALESCE(VALUES(col), col) for the two fields.
InsertResult(res, row) ==
    IF \E r \in res : /\ r.enrollment_id = row.enrollment_id
                      /\ r.command_uuid = row.command_uuid
    THEN {IF /\ r.enrollment_id = row.enrollment_id
             /\ r.command_uuid = row.command_uuid
          THEN [r EXCEPT !.raw_result = Coalesce(row.raw_result, r.raw_result),
                         !.status_code = Coalesce(row.status_code, r.status_code)]
          ELSE r : r \in res}
    ELSE res \cup {row}

RECURSIVE InsertResults(_, _)
InsertResults(res, rows) ==
    IF rows = {} THEN res
    ELSE LET row == CHOOSE r \in rows : TRUE
         IN  InsertResults(InsertResult(res, row), rows \ {row})

\* The VALUES rows of insertResultsStmt: the Go values are the (non-nil)
\* empty byte slice and the empty string when the response has no data.
ResultRows(ops, matchingUUIDs, enrollmentID, responseID) ==
    {[enrollment_id |-> enrollmentID,
      command_uuid |-> u,
      raw_result |-> RawResultFor(ops, u),
      response_id |-> responseID,
      status_code |-> StatusCodeFor(ops, u)] : u \in matchingUUIDs}

\* A correlator that forgets to dequeue.
DequeueCommands_Never(q, enrollmentID, matchingUUIDs) == q

\* dequeueCommandsStmt
DequeueCommands(q, enrollmentID, matchingUUIDs) ==
    {e \in q : e.command_uuid \notin matchingUUIDs}

\* The statements of the transaction function without the rollback: the
\* response saved before the failing statement stays.
SaveResponseTx_NoRollback(enrollment, fullResponse) ==
    LET unchanged == [responses |-> responses, results |-> results,
                      hostProfiles |-> hostProfiles, queue |-> queue]
        ops == fullResponse.ops
        cmdUUIDs == TrackedCmdUUIDs(ops)
        saved == Append(responses, [enrollment_id |-> enrollment.id,
                                    raw_response |-> fullResponse.Raw])
        responseID == Len(saved)
        matchingUUIDs == {c.command_uuid : c \in
                             {x \in commands : x.command_uuid \in cmdUUIDs}}
        payloads == PotentialProfilePayloads(ops, matchingUUIDs,
                                             enrollment.host_uuid)
        upd == updateMDMWindowsHostProfileStatusFromResponseDB(hostProfiles,
                                                               payloads)
    IN  IF cmdUUIDs = {}
        THEN [err |-> "ok"] @@ unchanged
        ELSE IF matchingUUIDs = {}
        THEN [err |-> "ok"] @@ [unchanged EXCEPT !.responses = saved]
        ELSE IF upd.err # "ok"
        THEN [err |-> upd.err] @@ [unchanged EXCEPT !.responses = saved]
        ELSE [err |-> "ok",
              responses |-> saved,
              results |-> InsertResults(results,
                              ResultRows(ops, matchingUUIDs, enrollment.id,
                                         responseID)),
              hostProfiles |-> upd.hostProfiles,
              queue |-> DequeueCommands(queue, enrollment.id, matchingUUIDs)]

\* A correlator that stores the full response before it looks for
\* operations to track.
SaveResponseTx_SaveBeforeNoop(enrollment, fullResponse) ==
    LET unchanged == [responses |-> responses, results |-> results,
                      hostProfiles |-> hostProfiles, queue |-> queue]
        ops == fullResponse.ops
        cmdUUIDs == TrackedCmdUUIDs(ops)
        saved == Append(responses, [enrollment_id |-> enrollment.id,
                                    raw_response |-> fullResponse.Raw])
        responseID == Len(saved)
        matchingUUIDs == {c.command_uuid : c \in
                             {x \in commands : x.command_uuid \in cmdUUIDs}}
        payloads == PotentialProfilePayloads(ops, matchingUUIDs,
                                             enrollment.host_uuid)
        upd == updateMDMWindowsHostProfileStatusFromResponseDB(hostProfiles,
                                                               payloads)
    IN  IF matchingUUIDs = {}
        THEN [err |-> "ok"] @@ [unchanged EXCEPT !.responses = saved]
        ELSE IF upd.err # "ok"
        THEN [err |-> upd.err] @@ unchanged
        ELSE [err |-> "ok",
              responses |-> saved,
              results |-> InsertResults(results,
                              ResultRows(ops, matchingUUIDs, enrollment.id,
                                         responseID)),
              hostProfiles |-> upd.hostProfiles,
              queue |-> DequeueCommands(queue, enrollment.id, matchingUUIDs)]

\* The transaction function of MDMWindowsSaveResponse for the enrollment
\* resolved before it: the tables it commits and the error it returns.
SaveResponseTx(enrollment, fullResponse) ==
    LET unchanged == [responses |-> responses, results |-> results,
                      hostProfiles |-> hostProfiles, queue |-> queue]
        ops == fullResponse.ops
        cmdUUIDs == TrackedCmdUUIDs(ops)
        saved == Append(responses, [enrollment_id |-> enrollment.id,
                                    raw_response |-> fullResponse.Raw])
        responseID == Len(saved)
        matchingUUIDs == {c.command_uuid : c \in
                             {x \in commands : x.command_uuid \in cmdUUIDs}}
        payloads == PotentialProfilePayloads(ops, matchingUUIDs,
                                             enrollment.host_uuid)
        upd == updateMDMWindowsHostProfileStatusFromResponseDB(hostProfiles,
                                                               payloads)
    IN  IF cmdUUIDs = {}
        THEN [err |-> "ok"] @@ unchanged
        ELSE IF matchingUUIDs = {}
        THEN [err |-> "ok"] @@ [unchanged EXCEPT !.responses = saved]
        ELSE IF upd.err # "ok"
        THEN [err |-> upd.err] @@ unchanged
        ELSE [err |-> "ok",
              responses |-> saved,
              results |-> InsertResults(results,
                              ResultRows(ops, matchingUUIDs, enrollment.id,
                                         responseID)),
              hostProfiles |-> upd.hostProfiles,
              queue |-> DequeueCommands(queue, enrollment.id, matchingUUIDs)]

\* MDMWindowsSaveResponse
MDMWindowsSaveResponse(deviceID, fullResponse) ==
    LET unchanged == [responses |-> responses, results |-> results,
                      hostProfiles |-> hostProfiles, queue |-> queue]
        found == MDMWindowsGetEnrolledDeviceWithDeviceID(deviceID)
    IN  IF fullResponse.Raw = ""
        THEN [err |-> "empty raw response"] @@ unchanged
        ELSE IF found = {}
        THEN [err |-> "notFound"] @@ unchanged
        ELSE SaveResponseTx(CHOOSE e \in found : TRUE, fullResponse)

\* ------------------------------------------------------ profile reconciler
HostProfileKey(r) == <<r.profile_uuid, r.host_uuid>>

HostProfileKeys(hp) == {HostProfileKey(r) : r \in hp}

\* A host filter that lets every host through.
HostFilter_EveryHost(hostUUIDs, uuid) == TRUE

\* h.uuid IN (?) / hmwp.host_uuid IN (?); TRUE when the list is empty
HostFilter(hostUUIDs, uuid) == hostUUIDs = {} \/ uuid \in hostUUIDs

\* h.team_id = mwcp.team_id OR (h.team_id IS NULL AND mwcp.team_id = 0)
TeamJoin(h, mwcp) ==
    \/ (h.team_id # NULL /\ h.team_id = mwcp.team_id)
    \/ (h.team_id = NULL /\ mwcp.team_id = "0")

\* The subquery ds of listMDMWindowsProfilesToInstallDB: profiles JOIN hosts
\* JOIN enrollments, windows hosts only, under the host filter.
DesiredStateToInstall(hostUUIDs) ==
    {[profile_uuid |-> x[1].profile_uuid, host_uuid |-> x[2].uuid,
      profile_name |-> x[1].name] :
        x \in {y \in profiles \X hosts :
                 /\ TeamJoin(y[2], y[1])
                 /\ \E mwe \in enrollments : mwe.host_uuid = y[2].uuid
                 /\ y[2].platform = "windows"
                 /\ HostFilter(hostUUIDs, y[2].uuid)}}

\* An install query that also takes the rows that failed.
ToInstallWhere_RetryFailed(hp, ds) ==
    \/ ~ \E hmwp \in hp : HostProfileKey(hmwp) = HostProfileKey(ds)
    \/ \E hmwp \in hp :
          /\ HostProfileKey(hmwp) = HostProfileKey(ds)
          /\ hmwp.operation_type = MDMOperationTypeInstall
          /\ hmwp.status \in {NULL, MDMDeliveryFailed}

\* An install query that only looks for missing rows.
ToInstallWhere_OnlyMissing(hp, ds) ==
    ~ \E hmwp \in hp : HostProfileKey(hmwp) = HostProfileKey(ds)

\* The WHERE clause of listMDMWindowsProfilesToInstallDB on ds LEFT JOIN hmwp
ToInstallWhere(hp, ds) ==
    \/ ~ \E hmwp \in hp : HostProfileKey(hmwp) = HostProfileKey(ds)
    \/ \E hmwp \in hp :
          /\ HostProfileKey(hmwp) = HostProfileKey(ds)
          /\ hmwp.operation_type = MDMOperationTypeInstall
          /\ hmwp.status = NULL

listMDMWindowsProfilesToInstallDB(hp, hostUUIDs) ==
    {ds \in DesiredStateToInstall(hostUUIDs) : ToInstallWhere(hp, ds)}

\* A remove query whose join forgets the hosts without a team.
DesiredStateToRemove_NoNullTeam ==
    {<<y[1].profile_uuid, y[2].uuid>> :
        y \in {z \in profiles \X hosts :
                 /\ z[2].team_id # NULL /\ z[2].team_id = z[1].team_id
                 /\ \E mwe \in enrollments : mwe.host_uuid = z[2].uuid
                 /\ z[2].platform = "windows"}}

\* The subquery ds of listMDMWindowsProfilesToRemoveDB (no host filter)
DesiredStateToRemove ==
    {<<y[1].profile_uuid, y[2].uuid>> :
        y \in {z \in profiles \X hosts :
                 /\ TeamJoin(z[2], z[1])
                 /\ \E mwe \in enrollments : mwe.host_uuid = z[2].uuid
                 /\ z[2].platform = "windows"}}

\* ds RIGHT JOIN hmwp WHERE ds.profile_uuid IS NULL AND ds.uuid IS NULL AND filter
listMDMWindowsProfilesToRemoveDB(hp, hostUUIDs) ==
    {hmwp \in hp :
        /\ HostProfileKey(hmwp) \notin DesiredStateToRemove
        /\ HostFilter(hostUUIDs, hmwp.host_uuid)}

\* A bulk delete that deletes nothing.
bulkDeleteMDMWindowsHostsConfigProfilesDB_Noop(hp, profs) == hp

\* DELETE FROM host_mdm_windows_profiles WHERE (profile_uuid, host_uuid) IN (...)
\* batch after batch in the caller's transaction.
bulkDeleteMDMWindowsHostsConfigProfilesDB(hp, profs) ==
    {r \in hp : HostProfileKey(r) \notin {HostProfileKey(p) : p \in profs}}

\* An upsert whose ON DUPLICATE KEY UPDATE writes status 'pending' while the
\* VALUES row keeps NULL.
SetPendingUpsert_UpdateSetsPending(hp, p) ==
    IF \E r \in hp : HostProfileKey(r) = HostProfileKey(p)
    THEN {IF HostProfileKey(r) = HostProfileKey(p)
          THEN [r EXCEPT !.operation_type = MDMOperationTypeInstall,
                         !.status = MDMDeliveryPending,
                         !.command_uuid = "",
                         !.detail = ""]
          ELSE r : r \in hp}
    ELSE hp \cup {[profile_uuid |-> p.profile_uuid,
                   host_uuid |-> p.host_uuid,
                   profile_name |-> p.profile_name,
                   operation_type |-> MDMOperationTypeInstall,
                   status |-> NULL,
                   command_uuid |-> "",
                   detail |-> ""]}

\* executeUpsertBatch of bulkSetPendingMDMWindowsHostProfilesDB, one VALUES
\* row (?, ?, ?, install, NULL, ''): detail is not in the column list.
SetPendingUpsert(hp, p) ==
    IF \E r \in hp : HostProfileKey(r) = HostProfileKey(p)
    THEN {IF HostProfileKey(r) = HostProfileKey(p)
          THEN [r EXCEPT !.operation_type = MDMOperationTypeInstall,
                         !.status = NULL,
                         !.command_uuid = "",
                         !.detail = ""]
          ELSE r : r \in hp}
    ELSE hp \cup {[profile_uuid |-> p.profile_uuid,
                   host_uuid |-> p.host_uuid,
                   profile_name |-> p.profile_name,
                   operation_type |-> MDMOperationTypeInstall,
                   status |-> NULL,
                   command_uuid |-> "",
                   detail |-> HostProfileDetailDefault]}

RECURSIVE SetPendingUpserts(_, _)
SetPendingUpserts(hp, rows) ==
    IF rows = {} THEN hp
    ELSE LET p == CHOOSE r \in rows : TRUE
         IN  SetPendingUpserts(SetPendingUpsert(hp, p), rows \ {p})

\* A reconciler that writes the install rows and never deletes a row.
bulkSetPendingMDMWindowsHostProfilesDB_InstallOnly(hp, uuids) ==
    IF uuids = {} THEN hp
    ELSE SetPendingUpserts(hp, listMDMWindowsProfilesToInstallDB(hp, uuids))

\* bulkSetPendingMDMWindowsHostProfilesDB
bulkSetPendingMDMWindowsHostProfilesDB(hp, uuids) ==
    IF uuids = {} THEN hp
    ELSE LET profilesToInstall == listMDMWindowsProfilesToInstallDB(hp, uuids)
             profilesToRemove == listMDMWindowsProfilesToRemoveDB(hp, uuids)
         IN  IF profilesToInstall = {} /\ profilesToRemove = {}
             THEN hp
             ELSE SetPendingUpserts(
                      bulkDeleteMDMWindowsHostsConfigProfilesDB(hp, profilesToRemove),
                      profilesToInstall)

\* executeUpsertBatch of BulkUpsertMDMWindowsHostProfiles, one VALUES row
UpsertHostProfile(hp, p) ==
    {r \in hp : HostProfileKey(r) # HostProfileKey(p)} \cup {p}

RECURSIVE BulkUpsertMDMWindowsHostProfiles(_, _)
BulkUpsertMDMWindowsHostProfiles(hp, payload) ==
    IF payload = <<>> THEN hp
    ELSE BulkUpsertMDMWindowsHostProfiles(UpsertHostProfile(hp, Head(payload)),
                                          Tail(payload))

\* ------------------------------------------------------- batched writes
\* The rows of the statements the batching loop executes, in order: a
\* statement is flushed when batchCount reaches batchSize, and the rows
\* left over are flushed after the loop.  This loop drops the leftover rows.
RECURSIVE Batches_DropPartial(_, _)
Batches_DropPartial(rows, batchSize) ==
    IF Len(rows) < batchSize THEN <<>>
    ELSE <<SubSeq(rows, 1, batchSize)>>
         \o Batches_DropPartial(SubSeq(rows, batchSize + 1, Len(rows)), batchSize)

\* for _, p := range payload { ...; batchCount++; if batchCount >= batchSize
\* { execute; resetBatch() } }; if batchCount > 0 { execute }
RECURSIVE Batches(_, _)
Batches(rows, batchSize) ==
    IF Len(rows) = 0 THEN <<>>
    ELSE IF Len(rows) <= batchSize THEN <<rows>>
    ELSE <<SubSeq(rows, 1, batchSize)>>
         \o Batches(SubSeq(rows, batchSize + 1, Len(rows)), batchSize)

\* An upsert statement in which the first VALUES row of a key wins.
RECURSIVE executeUpsertBatch_FirstWins(_, _)
executeUpsertBatch_FirstWins(hp, batch) ==
    IF batch = <<>> THEN hp
    ELSE LET n == Len(batch)
         IN  executeUpsertBatch_FirstWins(UpsertHostProfile(hp, batch[n]),
                                          SubSeq(batch, 1, n - 1))

\* executeUpsertBatch of BulkUpsertMDMWindowsHostProfiles: one INSERT ... ON
\* DUPLICATE KEY UPDATE statement, its VALUES rows applied in order.
RECURSIVE executeUpsertBatch(_, _)
executeUpsertBatch(hp, batch) ==
    IF batch = <<>> THEN hp
    ELSE executeUpsertBatch(UpsertHostProfile(hp, Head(batch)), Tail(batch))

\* The statements of BulkUpsertMDMWindowsHostProfiles from batch k on, each
\* on ds.writer with nothing around it; the statement of batch failAt
\* fails (failAt = 0: none does) and the function returns its error.
RECURSIVE UpsertBatches(_, _, _, _)
UpsertBatches(hp, batches, k, failAt) ==
    IF k > Len(batches) THEN [err |-> "ok", hostProfiles |-> hp]
    ELSE IF k = failAt THEN [err |-> "error", hostProfiles |-> hp]
    ELSE UpsertBatches(executeUpsertBatch(hp, batches[k]), batches, k + 1, failAt)

\* BulkUpsertMDMWindowsHostProfiles with its batch size and the failure of
\* one statement as inputs.
BulkUpsertInBatches(hp, payload, batchSize, failAt) ==
    IF Len(payload) = 0 THEN [err |-> "ok", hostProfiles |-> hp]
    ELSE UpsertBatches(hp, Batches(payload, batchSize), 1, failAt)

\* executeDeleteBatch: one DELETE ... WHERE (profile_uuid, host_uuid) IN (...)
executeDeleteBatch(hp, batch) ==
    {r \in hp : HostProfileKey(r) \notin {HostProfileKey(batch[i]) : i \in DOMAIN batch}}

\* The statements of bulkDeleteMDMWindowsHostsConfigProfilesDB from batch k
\* on, on the caller's tx: the rows as the transaction sees them.
RECURSIVE DeleteBatches(_, _, _, _)
DeleteBatches(hp, batches, k, failAt) ==
    IF k > Len(batches) THEN [err |-> "ok", hostProfiles |-> hp]
    ELSE IF k = failAt THEN [err |-> "error", hostProfiles |-> hp]
    ELSE DeleteBatches(executeDeleteBatch(hp, batches[k]), batches, k + 1, failAt)

\* bulkDeleteMDMWindowsHostsConfigProfilesDB with its batch size and the
\* failure of one statement as inputs.
bulkDeleteInBatches(hp, profs, batchSize, failAt) ==
    IF Len(profs) = 0 THEN [err |-> "ok", hostProfiles |-> hp]
    ELSE DeleteBatches(hp, Batches(profs, batchSize), 1, failAt)

\* ds.withTx: the function's writes are committed when it returns nil and
\* rolled back when it returns an error.
withTx(hp, r) ==
    IF r.err = "ok" THEN r ELSE [err |-> r.err, hostProfiles |-> hp]

\* BulkDeleteMDMWindowsHostsConfigProfiles
BulkDeleteMDMWindowsHostsConfigProfiles(hp, profs, batchSize, failAt) ==
    withTx(hp, bulkDeleteInBatches(hp, profs, batchSize, failAt))

\* executeUpsertBatch of bulkSetPendingMDMWindowsHostProfilesDB: one
\* statement, its VALUES rows applied in order.
RECURSIVE executeSetPendingBatch(_, _)
executeSetPendingBatch(hp, batch) ==
    IF batch = <<>> THEN hp
    ELSE executeSetPendingBatch(SetPendingUpsert(hp, Head(batch)), Tail(batch))

RECURSIVE SetPendingBatches(_, _, _)
SetPendingBatches(hp, batches, k) ==
    IF k > Len(batches) THEN hp
    ELSE SetPendingBatches(executeSetPendingBatch(hp, batches[k]), batches, k + 1)

\* The orders in which a query without ORDER BY can return the rows S.
RowOrders(S) ==
    {o \in [1..Cardinality(S) -> S] : \A i, j \in DOMAIN o : o[i] = o[j] => i = j}

\* bulkSetPendingMDMWindowsHostProfilesDB for the two lists in the order
\* the queries returned them, with the batch sizes of the delete and of
\* the upsert as inputs.
bulkSetPendingInBatches(hp, uuids, profilesToInstall, profilesToRemove, deleteBatchSize, upsertBatchSize) ==
    IF uuids = {} THEN hp
    ELSE IF Len(profilesToInstall) = 0 /\ Len(profilesToRemove) = 0 THEN hp
    ELSE SetPendingBatches(
             bulkDeleteInBatches(hp, profilesToRemove, deleteBatchSize, 0).hostProfiles,
             Batches(profilesToInstall, upsertBatchSize), 1)

\* ------------------------------------------------- disk encryption status
\* Timestamps count half hours.  A nullable flag column holds NULL, "0" or
\* "1"; the updated_at columns of a stored row are never NULL.
IntervalOneHour == 2

DiskEncryptionVerified == "verified"
DiskEncryptionVerifying == "verifying"
DiskEncryptionEnforcing == "enforcing"
DiskEncryptionFailed == "failed"

DiskEncryptionStatuses ==
    {DiskEncryptionVerified, DiskEncryptionVerifying, DiskEncryptionEnforcing,
     DiskEncryptionFailed}

\* host_mdm hmdm LEFT JOIN host_disk_encryption_keys hdek LEFT JOIN
\* host_disks hd for one host: each side is the set of its rows of the
\* host, empty where the join fills in NULLs.
JoinedRow(hostID) ==
    [hmdm |-> {r \in hostMDM : r.host_id = hostID},
     hdek |-> {r \in hostDiskEncryptionKeys : r.host_id = hostID},
     hd |-> {r \in hostDisks : r.host_id = hostID}]

whereNotServer(j) ==
    \E hmdm \in j.hmdm : hmdm.is_server # NULL /\ hmdm.is_server = "0"

whereKeyAvailable(j) ==
    \E hdek \in j.hdek :
        /\ hdek.base64_encrypted # NULL
        /\ hdek.base64_encrypted # ""
        /\ hdek.decryptable # NULL
        /\ hdek.decryptable = "1"

whereEncrypted(j) ==
    \E hd \in j.hd : hd.encrypted # NULL /\ hd.encrypted = "1"

whereHostDisksUpdated(j) ==
    \E hd \in j.hd, hdek \in j.hdek : hd.updated_at >= hdek.updated_at

whereClientError(j) ==
    \E hdek \in j.hdek : hdek.client_error # NULL /\ hdek.client_error # ""

\* hdek.updated_at >= DATE_SUB(NOW(), INTERVAL 1 HOUR), NOW() being t
withinGracePeriod(j, t) ==
    \E hdek \in j.hdek : hdek.updated_at >= t - IntervalOneHour

\* The predicates with a Verified that does not look at the client error.
whereBitLockerStatus_VerifiedIgnoresClientError(status, j, t) ==
    CASE status = DiskEncryptionVerified ->
            /\ whereNotServer(j)
            /\ whereKeyAvailable(j)
            /\ whereEncrypted(j)
            /\ whereHostDisksUpdated(j)
      [] status = DiskEncryptionVerifying ->
            /\ whereNotServer(j)
            /\ ~whereClientError(j)
            /\ whereKeyAvailable(j)
            /\ \/ whereEncrypted(j) /\ ~whereHostDisksUpdated(j)
               \/ /\ ~whereEncrypted(j)
                  /\ whereHostDisksUpdated(j)
                  /\ withinGracePeriod(j, t)
      [] status = DiskEncryptionEnforcing ->
            /\ whereNotServer(j)
            /\ ~whereClientError(j)
            /\ \/ ~whereKeyAvailable(j)
               \/ /\ whereKeyAvailable(j)
                  /\ ~whereEncrypted(j)
                  /\ (~whereHostDisksUpdated(j) \/ ~withinGracePeriod(j, t))
      [] status = DiskEncryptionFailed ->
            whereNotServer(j) /\ whereClientError(j)
      [] OTHER -> FALSE

\* The predicates with an Enforcing that does not look at the grace period.
whereBitLockerStatus_EnforcingIgnoresGrace(status, j, t) ==
    CASE status = DiskEncryptionVerified ->
            /\ whereNotServer(j)
            /\ ~whereClientError(j)
            /\ whereKeyAvailable(j)
            /\ whereEncrypted(j)
            /\ whereHostDisksUpdated(j)
      [] status = DiskEncryptionVerifying ->
            /\ whereNotServer(j)
            /\ ~whereClientError(j)
            /\ whereKeyAvailable(j)
            /\ \/ whereEncrypted(j) /\ ~whereHostDisksUpdated(j)
               \/ /\ ~whereEncrypted(j)
                  /\ whereHostDisksUpdated(j)
                  /\ withinGracePeriod(j, t)
      [] status = DiskEncryptionEnforcing ->
            /\ whereNotServer(j)
            /\ ~whereClientError(j)
            /\ \/ ~whereKeyAvailable(j)
               \/ whereKeyAvailable(j) /\ ~whereEncrypted(j)
      [] status = DiskEncryptionFailed ->
            whereNotServer(j) /\ whereClientError(j)
      [] OTHER -> FALSE

\* whereBitLockerStatus: the WHERE fragment of a status, evaluated on the
\* joined row j of a host at time t.
whereBitLockerStatus(status, j, t) ==
    CASE status = DiskEncryptionVerified ->
            /\ whereNotServer(j)
            /\ ~whereClientError(j)
            /\ whereKeyAvailable(j)
            /\ whereEncrypted(j)
            /\ whereHostDisksUpdated(j)
      [] status = DiskEncryptionVerifying ->
            /\ whereNotServer(j)
            /\ ~whereClientError(j)
            /\ whereKeyAvailable(j)
            /\ \/ whereEncrypted(j) /\ ~whereHostDisksUpdated(j)
               \/ /\ ~whereEncrypted(j)
                  /\ whereHostDisksUpdated(j)
                  /\ withinGracePeriod(j, t)
      [] status = DiskEncryptionEnforcing ->
            /\ whereNotServer(j)
            /\ ~whereClientError(j)
            /\ \/ ~whereKeyAvailable(j)
               \/ /\ whereKeyAvailable(j)
                  /\ ~whereEncrypted(j)
                  /\ (~whereHostDisksUpdated(j) \/ ~withinGracePeriod(j, t))
      [] status = DiskEncryptionFailed ->
            whereNotServer(j) /\ whereClientError(j)
      [] OTHER -> FALSE

\* ds.getConfigEnableDiskEncryption: the app config for no team (nil or 0),
\* the team's config otherwise.
getConfigEnableDiskEncryption(teamID) ==
    (IF teamID \in {NULL, "0"} THEN NULL ELSE teamID) \in enableDiskEncryption

\* teamFilter of GetMDMWindowsBitLockerSummary
BitLockerTeamFilter(h, teamID) ==
    IF teamID # NULL /\ teamID # "0" THEN h.team_id = teamID
    ELSE h.team_id = NULL

\* The rows of the FROM ... WHERE of GetMDMWindowsBitLockerSummary, one per
\* host.
BitLockerSummaryHosts(teamID) ==
    {h \in hosts :
        /\ h.platform = "windows"
        /\ \E hmdm \in JoinedRow(h.uuid).hmdm :
              hmdm.is_server # NULL /\ hmdm.is_server = "0"
        /\ BitLockerTeamFilter(h, teamID)}

\* COUNT(if((predicate of status), 1, NULL))
BitLockerCount(teamID, status) ==
    Cardinality({h \in BitLockerSummaryHosts(teamID) :
                    whereBitLockerStatus(status, JoinedRow(h.uuid), now)})

\* GetMDMWindowsBitLockerSummary
GetMDMWindowsBitLockerSummary(teamID) ==
    IF ~getConfigEnableDiskEncryption(teamID)
    THEN [verified |-> 0, verifying |-> 0, enforcing |-> 0, failed |-> 0]
    ELSE [verified |-> BitLockerCount(teamID, DiskEncryptionVerified),
          verifying |-> BitLockerCount(teamID, DiskEncryptionVerifying),
          enforcing |-> BitLockerCount(teamID, DiskEncryptionEnforcing),
          failed |-> BitLockerCount(teamID, DiskEncryptionFailed)]

\* The *fleet.Host a caller passes for the hosts row h: MDMInfo is nil (the
\* empty set) without a host_mdm row and carries IsServer otherwise.
HostStruct(h) ==
    [uuid |-> h.uuid, platform |-> h.platform, team_id |-> h.team_id,
     MDMInfo |-> {[IsServer |-> hmdm.is_server = "1"]
                     : hmdm \in JoinedRow(h.uuid).hmdm}]

\* CASE WHEN (verified) ... WHEN (verifying) ... WHEN (enforcing) ... WHEN
\* (failed) ... END: the first status whose predicate holds, NULL if none.
BitLockerCaseStatus(j, t) ==
    IF whereBitLockerStatus(DiskEncryptionVerified, j, t)
    THEN DiskEncryptionVerified
    ELSE IF whereBitLockerStatus(DiskEncryptionVerifying, j, t)
    THEN DiskEncryptionVerifying
    ELSE IF whereBitLockerStatus(DiskEncryptionEnforcing, j, t)
    THEN DiskEncryptionEnforcing
    ELSE IF whereBitLockerStatus(DiskEncryptionFailed, j, t)
    THEN DiskEncryptionFailed
    ELSE NULL

\* COALESCE(client_error, '') as detail
BitLockerDetail(j) ==
    IF \E hdek \in j.hdek : hdek.client_error # NULL
    THEN (CHOOSE hdek \in j.hdek : TRUE).client_error
    ELSE ""

\* What scanning a NULL status into dest.Status can give: the error of
\* database/sql, or the zero value if the type accepts NULL.
NullScanOutcomes == {"error", "zero"}

\* GetMDMWindowsBitLockerStatus at time t: "no status" is the nil result
\* (status NULL, no error).
GetMDMWindowsBitLockerStatus(host, t, nullScan) ==
    LET none == [status |-> NULL, detail |-> "", err |-> "ok"]
        j == JoinedRow(host.uuid)
        status == BitLockerCaseStatus(j, t)
    IN  IF host.platform # "windows" THEN none
        ELSE IF \E info \in host.MDMInfo : info.IsServer THEN none
        ELSE IF ~getConfigEnableDiskEncryption(host.team_id) THEN none
        ELSE IF j.hmdm = {}
        THEN [status |-> DiskEncryptionEnforcing, detail |-> "", err |-> "ok"]
        ELSE IF status = NULL
        THEN IF nullScan = "error"
             THEN [status |-> "", detail |-> "", err |-> "error"]
             ELSE [status |-> "", detail |-> BitLockerDetail(j), err |-> "ok"]
        ELSE [status |-> status, detail |-> BitLockerDetail(j), err |-> "ok"]

\* ------------------------------------------------------- status summary
WellKnownMDMFleet == "Fleet"

\* mobile_device_management_solutions
MobileDeviceManagementSolutions ==
    {[id |-> "1", name |-> WellKnownMDMFleet], [id |-> "2", name |-> "Other"]}

subqueryHostsMDMWindowsOSSettingsStatusFailed(h) ==
    \E hmwp \in hostProfiles :
        h.uuid = hmwp.host_uuid /\ hmwp.status = MDMDeliveryFailed

\* A pending subquery that takes no account of rows without a status.
subqueryHostsMDMWindowsOSSettingsStatusPending_IgnoresNotDispatched(h) ==
    \E hmwp \in hostProfiles :
        /\ h.uuid = hmwp.host_uuid
        /\ hmwp.status = MDMDeliveryPending
        /\ ~\E hmwp2 \in hostProfiles :
              h.uuid = hmwp2.host_uuid /\ hmwp2.status = MDMDeliveryFailed

subqueryHostsMDMWindowsOSSettingsStatusPending(h) ==
    \E hmwp \in hostProfiles :
        /\ h.uuid = hmwp.host_uuid
        /\ (hmwp.status = NULL \/ hmwp.status = MDMDeliveryPending)
        /\ ~\E hmwp2 \in hostProfiles :
              h.uuid = hmwp2.host_uuid /\ hmwp2.status = MDMDeliveryFailed

subqueryHostsMDMWindowsOSSettingsStatusVerifying(h) ==
    \E hmwp \in hostProfiles :
        /\ h.uuid = hmwp.host_uuid
        /\ hmwp.operation_type = MDMOperationTypeInstall
        /\ hmwp.status = MDMDeliveryVerifying
        /\ ~\E hmwp2 \in hostProfiles :
              /\ h.uuid = hmwp2.host_uuid
              /\ hmwp2.operation_type = MDMOperationTypeInstall
              /\ \/ hmwp2.status = NULL
                 \/ hmwp2.status \notin {MDMDeliveryVerifying, MDMDeliveryVerified}

subqueryHostsMDMWindowsOSSettingsStatusVerified(h) ==
    \E hmwp \in hostProfiles :
        /\ h.uuid = hmwp.host_uuid
        /\ hmwp.operation_type = MDMOperationTypeInstall
        /\ hmwp.status = MDMDeliveryVerified
        /\ ~\E hmwp2 \in hostProfiles :
              /\ h.uuid = hmwp2.host_uuid
              /\ hmwp2.operation_type = MDMOperationTypeInstall
              /\ (hmwp2.status = NULL \/ hmwp2.status # MDMDeliveryVerified)

\* profilesStatus: CASE WHEN EXISTS (failed) ... ELSE '' END
ProfilesStatus(h) ==
    IF subqueryHostsMDMWindowsOSSettingsStatusFailed(h) THEN "profiles_failed"
    ELSE IF subqueryHostsMDMWindowsOSSettingsStatusPending(h) THEN "profiles_pending"
    ELSE IF subqueryHostsMDMWindowsOSSettingsStatusVerifying(h) THEN "profiles_verifying"
    ELSE IF subqueryHostsMDMWindowsOSSettingsStatusVerified(h) THEN "profiles_verified"
    ELSE ""

\* bitlockerStatus: CASE WHEN (verified) ... ELSE '' END on the row of h
\* joined with its key and disk rows
BitlockerStatus(h) ==
    LET j == JoinedRow(h.uuid)
    IN  IF whereBitLockerStatus(DiskEncryptionVerified, j, now)
        THEN "bitlocker_verified"
        ELSE IF whereBitLockerStatus(DiskEncryptionVerifying, j, now)
        THEN "bitlocker_verifying"
        ELSE IF whereBitLockerStatus(DiskEncryptionEnforcing, j, now)
        THEN "bitlocker_pending"
        ELSE IF whereBitLockerStatus(DiskEncryptionFailed, j, now)
        THEN "bitlocker_failed"
        ELSE ""

\* REPLACE(bitlockerStatus, 'bitlocker_', '')
ReplaceBitlockerPrefix(status) ==
    CASE status = "bitlocker_verified" -> "verified"
      [] status = "bitlocker_verifying" -> "verifying"
      [] status = "bitlocker_pending" -> "pending"
      [] status = "bitlocker_failed" -> "failed"
      [] OTHER -> status

\* A merge in which a verifying host whose disk encryption is pending stays
\* verifying.
ProfilesAndBitLockerStatus_VerifyingIgnoresPending(profilesStatus, bitlockerStatus) ==
    CASE profilesStatus = "profiles_failed" -> "failed"
      [] profilesStatus = "profiles_pending" ->
            IF bitlockerStatus = "bitlocker_failed" THEN "failed" ELSE "pending"
      [] profilesStatus = "profiles_verifying" ->
            IF bitlockerStatus = "bitlocker_failed" THEN "failed"
            ELSE "verifying"
      [] profilesStatus = "profiles_verified" ->
            IF bitlockerStatus = "bitlocker_failed" THEN "failed"
            ELSE IF bitlockerStatus = "bitlocker_pending" THEN "pending"
            ELSE IF bitlockerStatus = "bitlocker_verifying" THEN "verifying"
            ELSE "verified"
      [] OTHER -> ReplaceBitlockerPrefix(bitlockerStatus)

\* The status column of getMDMWindowsStatusCountsProfilesAndBitLockerDB:
\* CASE (profilesStatus) WHEN 'profiles_failed' THEN ... END
ProfilesAndBitLockerStatus(profilesStatus, bitlockerStatus) ==
    CASE profilesStatus = "profiles_failed" -> "failed"
      [] profilesStatus = "profiles_pending" ->
            IF bitlockerStatus = "bitlocker_failed" THEN "failed" ELSE "pending"
      [] profilesStatus = "profiles_verifying" ->
            IF bitlockerStatus = "bitlocker_failed" THEN "failed"
            ELSE IF bitlockerStatus = "bitlocker_pending" THEN "pending"
            ELSE "verifying"
      [] profilesStatus = "profiles_verified" ->
            IF bitlockerStatus = "bitlocker_failed" THEN "failed"
            ELSE IF bitlockerStatus = "bitlocker_pending" THEN "pending"
            ELSE IF bitlockerStatus = "bitlocker_verifying" THEN "verifying"
            ELSE "verified"
      [] OTHER -> ReplaceBitlockerPrefix(bitlockerStatus)

\* The status column of getMDMWindowsStatusCountsProfilesOnlyDB
ProfilesOnlyStatus(profilesStatus) ==
    CASE profilesStatus = "profiles_failed" -> "failed"
      [] profilesStatus = "profiles_pending" -> "pending"
      [] profilesStatus = "profiles_verifying" -> "verifying"
      [] profilesStatus = "profiles_verified" -> "verified"
      [] OTHER -> ""

\* FROM hosts h JOIN host_mdm hmdm JOIN mobile_device_management_solutions
\* mdms WHERE mdms.name = 'Fleet' AND hmdm.is_server = 0 AND hmdm.enrolled = 1
\* AND h.platform = 'windows' AND teamFilter: the hosts of the rows.
StatusCountsHosts(teamID) ==
    {h \in hosts :
        /\ h.platform = "windows"
        /\ BitLockerTeamFilter(h, teamID)
        /\ \E hmdm \in JoinedRow(h.uuid).hmdm :
              /\ \E mdms \in MobileDeviceManagementSolutions :
                    hmdm.mdm_id = mdms.id /\ mdms.name = WellKnownMDMFleet
              /\ hmdm.is_server = "0"
              /\ hmdm.enrolled = "1"}

\* SELECT status, SUM(1) AS count ... GROUP BY status, statusOf[h] being
\* the status column of the row of host h
GroupByStatus(statusOf) ==
    {[status |-> st,
      count |-> Cardinality({h \in DOMAIN statusOf : statusOf[h] = st})]
        : st \in {statusOf[h] : h \in DOMAIN statusOf}}

getMDMWindowsStatusCountsProfilesOnlyDB(teamID) ==
    GroupByStatus([h \in StatusCountsHosts(teamID)
                      |-> ProfilesOnlyStatus(ProfilesStatus(h))])

getMDMWindowsStatusCountsProfilesAndBitLockerDB(teamID) ==
    GroupByStatus([h \in StatusCountsHosts(teamID)
                      |-> ProfilesAndBitLockerStatus(ProfilesStatus(h),
                                                     BitlockerStatus(h))])

\* res.Failed, res.Pending, ... = c.Count of the row with that status
CountOf(counts, status) ==
    IF \E c \in counts : c.status = status
    THEN (CHOOSE c \in counts : c.status = status).count
    ELSE 0

\* GetMDMWindowsProfilesSummary
GetMDMWindowsProfilesSummary(teamID) ==
    LET includeBitLocker == getConfigEnableDiskEncryption(teamID)
        counts == IF ~includeBitLocker
                  THEN getMDMWindowsStatusCountsProfilesOnlyDB(teamID)
                  ELSE getMDMWindowsStatusCountsProfilesAndBitLockerDB(teamID)
    IN  IF \E c \in counts :
              c.status \notin {"failed", "pending", "verifying", "verified", ""}
        THEN [err |-> "unexpected mdm windows status count"]
        ELSE [err |-> "ok",
              failed |-> CountOf(counts, "failed"),
              pending |-> CountOf(counts, "pending"),
              verifying |-> CountOf(counts, "verifying"),
              verified |-> CountOf(counts, "verified")]

\* ------------------------------------------------------------ host view
\* WHERE host_uuid = ? AND NOT (operation_type = 'remove' AND
\* COALESCE(status, 'pending') IN ('verifying', 'verified')), in SQL's
\* three-valued logic: with operation_type NULL the conjunction is NULL
\* when the status is in the list and FALSE otherwise, and a row is
\* returned only if the negation is TRUE.
HostViewWhere(r, hostUUID) ==
    LET statusInList == Coalesce(r.status, MDMDeliveryPending)
                           \in {MDMDeliveryVerifying, MDMDeliveryVerified}
    IN  /\ r.host_uuid = hostUUID
        /\ IF r.operation_type = NULL THEN ~statusInList
           ELSE ~(r.operation_type = MDMOperationTypeRemove /\ statusInList)

\* GetHostMDMWindowsProfiles
GetHostMDMWindowsProfiles(hp, hostUUID) ==
    {[profile_uuid |-> r.profile_uuid,
      name |-> r.profile_name,
      status |-> Coalesce(r.status, MDMDeliveryPending),
      operation_type |-> Coalesce(r.operation_type, ""),
      detail |-> Coalesce(r.detail, "")] : r \in {x \in hp : HostViewWhere(x, hostUUID)}}

\* DeleteMDMWindowsConfigProfile
DeleteMDMWindowsConfigProfile(profs, profileUUID) ==
    IF \E p \in profs : p.profile_uuid = profileUUID
    THEN [err |-> "ok", profiles |-> {p \in profs : p.profile_uuid # profileUUID}]
    ELSE [err |-> "notFound", profiles |-> profs]

\* ------------------------------------------------------- profile batch set
\* UUID(): an identifier no stored profile and no host profile row carries.
ProfileUUIDPool == {"P1", "P2", "P3"}

FreeProfileUUIDs(profs, hp) ==
    {u \in ProfileUUIDPool :
        /\ \A p \in profs : p.profile_uuid # u
        /\ \A r \in hp : r.profile_uuid # u}

NewProfileUUID(profs, hp) == CHOOSE u \in FreeProfileUUIDs(profs, hp) : TRUE

\* insertNewOrEditedProfile: the key (team_id, name) decides between the
\* INSERT with a new uuid and the UPDATE of name and syncml.
InsertNewOrEditedProfile(profs, hp, profTeamID, p) ==
    IF \E x \in profs : x.team_id = profTeamID /\ x.name = p.name
    THEN {IF x.team_id = profTeamID /\ x.name = p.name
          THEN [x EXCEPT !.syncml = p.syncml] ELSE x : x \in profs}
    ELSE profs \cup {[profile_uuid |-> NewProfileUUID(profs, hp),
                      team_id |-> profTeamID, name |-> p.name,
                      syncml |-> p.syncml]}

RECURSIVE InsertNewOrEditedProfiles(_, _, _, _)
InsertNewOrEditedProfiles(profs, hp, profTeamID, incoming) ==
    IF incoming = {} THEN profs
    ELSE LET p == CHOOSE x \in incoming : TRUE
         IN  InsertNewOrEditedProfiles(
                 InsertNewOrEditedProfile(profs, hp, profTeamID, p),
                 hp, profTeamID, incoming \ {p})

\* batchSetMDMWindowsProfilesDB: the profiles table it leaves.  incomingProfs
\* is keyed by name; tmID NULL is team 0.
batchSetMDMWindowsProfilesDB(profs, hp, tmID, incomingProfs) ==
    LET profTeamID == IF tmID = NULL THEN "0" ELSE tmID
        incomingNames == {p.name : p \in incomingProfs}
        keepNames == {x.name : x \in {y \in profs :
                         y.team_id = profTeamID /\ y.name \in incomingNames}}
        kept == IF keepNames # {}
                THEN {x \in profs : ~(x.team_id = profTeamID /\ x.name \notin keepNames)}
                ELSE {x \in profs : x.team_id # profTeamID}
    IN  InsertNewOrEditedProfiles(kept, hp, profTeamID, incomingProfs)

\* ---------------------------------------------------- enrollment registry
\* The AUTO_INCREMENT id of a new enrollment: above every id a table or an
\* open transaction still refers to.
MaxOfSet(S) == CHOOSE m \in S : \A x \in S : x <= m

NextEnrollmentID ==
    1 + MaxOfSet({0} \cup {e.id : e \in enrollments}
                     \cup {q.enrollment_id : q \in queue \cup enqueued}
                     \cup {r.enrollment_id : r \in results}
                     \cup {responses[i].enrollment_id : i \in DOMAIN responses}
                     \cup {inflight[d].enrollment.id :
                             d \in {x \in DOMAIN inflight :
                                      inflight[x].pc # "idle"}})

\* MDMWindowsInsertEnrolledDevice: the enrollments it leaves and its error.
\* mdm_device_id and mdm_hardware_id are unique keys; ON DUPLICATE KEY UPDATE
\* updates the row of the first key found in conflict (firstKey) and leaves
\* its mdm_hardware_id; the update fails as a duplicate when another row
\* holds the device id.
MDMWindowsInsertEnrolledDevice(enr, device, firstKey) ==
    LET byDevice == {e \in enr : e.mdm_device_id = device.mdm_device_id}
        byHardware == {e \in enr : e.mdm_hardware_id = device.mdm_hardware_id}
        hit == IF byDevice = {} THEN byHardware
               ELSE IF byHardware = {} THEN byDevice
               ELSE IF firstKey = "mdm_device_id" THEN byDevice ELSE byHardware
    IN  IF hit = {}
        THEN [err |-> "ok",
              enrollments |-> enr \cup {[id |-> NextEnrollmentID,
                                         mdm_device_id |-> device.mdm_device_id,
                                         mdm_hardware_id |-> device.mdm_hardware_id,
                                         host_uuid |-> device.host_uuid]}]
        ELSE LET row == CHOOSE e \in hit : TRUE
             IN  IF \E e \in enr : e # row /\ e.mdm_device_id = device.mdm_device_id
                 THEN [err |-> "alreadyExists", enrollments |-> enr]
                 ELSE [err |-> "ok",
                       enrollments |-> (enr \ {row}) \cup
                           {[row EXCEPT !.mdm_device_id = device.mdm_device_id,
                                        !.host_uuid = device.host_uuid]}]

\* MDMWindowsDeleteEnrolledDevice
MDMWindowsDeleteEnrolledDevice(enr, mdmDeviceHWID) ==
    IF \E e \in enr : e.mdm_hardware_id = mdmDeviceHWID
    THEN [err |-> "ok",
          enrollments |-> {e \in enr : e.mdm_hardware_id # mdmDeviceHWID}]
    ELSE [err |-> "notFound", enrollments |-> enr]

\* MDMWindowsDeleteEnrolledDeviceWithDeviceID
MDMWindowsDeleteEnrolledDeviceWithDeviceID(enr, mdmDeviceID) ==
    IF Cardinality({e \in enr : e.mdm_device_id = mdmDeviceID}) = 1
    THEN [err |-> "ok",
          enrollments |-> {e \in enr : e.mdm_device_id # mdmDeviceID}]
    ELSE [err |-> "notFound",
          enrollments |-> {e \in enr : e.mdm_device_id # mdmDeviceID}]

\* UpdateMDMWindowsEnrollmentsHostUUID
UpdateMDMWindowsEnrollmentsHostUUID(enr, hostUUID, mdmDeviceID) ==
    [err |-> "ok",
     enrollments |-> {IF e.mdm_device_id = mdmDeviceID
                      THEN [e EXCEPT !.host_uuid = hostUUID] ELSE e : e \in enr}]

\* ------------------------------------------------------------ call inputs
\* Operations a device response is built from.
ProtoOps ==
    {ProtoOp(CmdStatus, "C1", "200", CmdAtomic, TRUE),
     ProtoOp(CmdStatus, "C1", "400", "Replace", TRUE),
     ProtoOp(CmdResults, "C1", "r", "Get", TRUE),
     ProtoOp(CmdStatus, "C2", "200", "Replace", TRUE),
     ProtoOp(CmdStatus, UnknownCmdUUID, "200", CmdAtomic, TRUE),
     ProtoOp(CmdStatus, NULL, "200", "SyncHdr", TRUE),
     ProtoOp(CmdStatus, "C1", "200", "SyncHdr", FALSE)}

FullResponses ==
    {[Raw |-> "", ops |-> <<>>]}
    \cup {[Raw |-> "<SyncML>", ops |-> o] : o \in SeqsUpTo(ProtoOps, MaxOps)}

\* Identities a command is sent to: host uuids, device ids, an unknown one.
TargetIdentities == {"D1", "D2", "H1", "X"}

NewCommands ==
    {[command_uuid |-> u, raw_command |-> "<Atomic>", target_loc_uri |-> "./Vendor"]
        : u \in CmdUUIDs}

HostProfileRow(profileUUID, hostUUID, name, op, status, detail, commandUUID) ==
    [profile_uuid |-> profileUUID, host_uuid |-> hostUUID,
     profile_name |-> name, operation_type |-> op, status |-> status,
     detail |-> detail, command_uuid |-> commandUUID]

\* Rows the dispatcher hands to BulkUpsertMDMWindowsHostProfiles when it has
\* sent command C1 for a profile.
DispatchRows ==
    {HostProfileRow(p.profile_uuid, "H1", p.name, MDMOperationTypeInstall,
                    MDMDeliveryPending, "", "C1") : p \in profiles}

\* ------------------------------------------------------------------ state
\* No host has reported a disk encryption signal and no scope enables disk
\* encryption.
NoDiskEncryptionSignals ==
    /\ hostMDM = {}
    /\ hostDiskEncryptionKeys = {}
    /\ hostDisks = {}
    /\ enableDiskEncryption = {}
    /\ now = 0

\* No device has an open MDMWindowsSaveResponse transaction.
NoTransactions == [d \in DeviceIDs |-> [pc |-> "idle"]]

InitEnrollments ==
    {[id |-> 1, mdm_device_id |-> "D1", mdm_hardware_id |-> "W1", host_uuid |-> "H1"],
     [id |-> 2, mdm_device_id |-> "D2", mdm_hardware_id |-> "W2", host_uuid |-> "H2"]}

InitHosts ==
    {[uuid |-> "H1", team_id |-> NULL, platform |-> "windows"],
     [uuid |-> "H2", team_id |-> NULL, platform |-> "windows"]}

InitProfiles ==
    {[profile_uuid |-> "P1", team_id |-> "0", name |-> "N1", syncml |-> "<a/>"]}

Init ==
    /\ enrollments = InitEnrollments
    /\ commands = {}
    /\ queue = {}
    /\ responses = <<>>
    /\ results = {}
    /\ profiles = InitProfiles
    /\ hosts = InitHosts
    /\ hostProfiles = {}
    /\ enqueued = {}
    /\ inflight = NoTransactions
    /\ NoDiskEncryptionSignals
    /\ ret = [op |-> "init"]

\* ---------------------------------------------------------------- actions
CreateAndEnqueue ==
    \E targets \in SeqsUpTo(TargetIdentities, MaxTargets), cmd \in NewCommands :
        LET r == MDMWindowsInsertCommandForHosts(targets, cmd)
        IN  /\ commands' = r.commands
            /\ queue' = r.queue
            /\ enqueued' = enqueued \cup (r.queue \ queue)
            /\ ret' = [op |-> "CreateAndEnqueue", err |-> r.err]
            /\ UNCHANGED <<diskEncryptionVars, enrollments, responses, results, profiles, hosts,
                           hostProfiles, inflight>>

SaveResponse ==
    /\ Len(responses) < MaxResponses
    /\ \E deviceID \in DeviceIDs, fullResponse \in FullResponses :
        LET r == MDMWindowsSaveResponse(deviceID, fullResponse)
        IN  /\ responses' = r.responses
            /\ results' = r.results
            /\ hostProfiles' = r.hostProfiles
            /\ queue' = r.queue
            /\ ret' = [op |-> "SaveResponse", err |-> r.err]
            /\ UNCHANGED <<diskEncryptionVars, enrollments, commands, profiles, hosts, enqueued,
                           inflight>>

BulkUpsert ==
    \E row \in DispatchRows :
        /\ hostProfiles' = BulkUpsertMDMWindowsHostProfiles(hostProfiles, <<row>>)
        /\ ret' = [op |-> "BulkUpsert", err |-> "ok"]
        /\ UNCHANGED <<diskEncryptionVars, enrollments, commands, queue, responses, results,
                       profiles, hosts, enqueued, inflight>>

Next ==
    \/ CreateAndEnqueue
    \/ SaveResponse
    \/ BulkUpsert

Spec == Init /\ [][Next]_vars

\* ------------------------------------------- specification: the reconciler
\* Hosts of the reconciler runs: H1 and H2 are enrolled windows hosts, H3 is
\* a windows host without an enrollment, H4 an enrolled host of another
\* platform.
ReconcileHostUUIDs == {"H1", "H2", "H3", "H4"}

ReconcileTeams == {NULL, "1"}

ReconcileEnrollments ==
    InitEnrollments
    \cup {[id |-> 3, mdm_device_id |-> "D4", mdm_hardware_id |-> "W4",
           host_uuid |-> "H4"]}

ReconcileHosts ==
    InitHosts
    \cup {[uuid |-> "H3", team_id |-> NULL, platform |-> "windows"],
          [uuid |-> "H4", team_id |-> NULL, platform |-> "darwin"]}

ReconcileProfiles ==
    InitProfiles
    \cup {[profile_uuid |-> "P2", team_id |-> "1", name |-> "N2", syncml |-> "<b/>"]}

\* Rows a dispatcher or verifier hands to BulkUpsertMDMWindowsHostProfiles.
ReconcileRows ==
    UNION {{HostProfileRow(p.profile_uuid, h, p.name, MDMOperationTypeInstall,
                           MDMDeliveryPending, "", "C1"),
            HostProfileRow(p.profile_uuid, h, p.name, MDMOperationTypeInstall,
                           MDMDeliveryFailed, "e", "C1"),
            HostProfileRow(p.profile_uuid, h, p.name, MDMOperationTypeRemove,
                           MDMDeliveryPending, "", "C2")}
              : <<p, h>> \in ReconcileProfiles \X HostUUIDs}

InitReconcile ==
    /\ enrollments = ReconcileEnrollments
    /\ commands = {}
    /\ queue = {}
    /\ responses = <<>>
    /\ results = {}
    /\ profiles = ReconcileProfiles
    /\ hosts = ReconcileHosts
    /\ hostProfiles = {}
    /\ enqueued = {}
    /\ inflight = NoTransactions
    /\ NoDiskEncryptionSignals
    /\ ret = [op |-> "init"]

\* bulkSetPendingMDMWindowsHostProfilesDB in its own transaction; ret keeps
\* whether the two lists it computed were non-empty.
ApplyPending ==
    \E uuids \in SUBSET ReconcileHostUUIDs :
        /\ hostProfiles' = bulkSetPendingMDMWindowsHostProfilesDB(hostProfiles, uuids)
        /\ ret' = [op |-> "ApplyPending", err |-> "ok",
                   installed |-> uuids # {} /\
                       listMDMWindowsProfilesToInstallDB(hostProfiles, uuids) # {},
                   removed |-> uuids # {} /\
                       listMDMWindowsProfilesToRemoveDB(hostProfiles, uuids) # {}]
        /\ UNCHANGED <<diskEncryptionVars, enrollments, commands, queue, responses, results,
                       profiles, hosts, enqueued, inflight>>

BulkUpsertStatus ==
    \E row \in ReconcileRows :
        /\ hostProfiles' = BulkUpsertMDMWindowsHostProfiles(hostProfiles, <<row>>)
        /\ ret' = [op |-> "BulkUpsert", err |-> "ok"]
        /\ UNCHANGED <<diskEncryptionVars, enrollments, commands, queue, responses, results,
                       profiles, hosts, enqueued, inflight>>

\* The host-to-team assignment is owned by an external collaborator: a host
\* is moved to another team.
TransferHost ==
    \E uuid \in HostUUIDs, team \in ReconcileTeams :
        /\ hosts' = {IF h.uuid = uuid THEN [h EXCEPT !.team_id = team] ELSE h
                        : h \in hosts}
        /\ ret' = [op |-> "TransferHost", err |-> "ok"]
        /\ UNCHANGED <<diskEncryptionVars, enrollments, commands, queue, responses, results,
                       profiles, hostProfiles, enqueued, inflight>>

NextReconcile ==
    \/ ApplyPending
    \/ BulkUpsertStatus
    \/ TransferHost

SpecReconcile == InitReconcile /\ [][NextReconcile]_vars


\* ------------------- specification: a response racing with the reconciler
\* MDMWindowsSaveResponse runs its statements one after the other inside a
\* transaction; other connections commit between them.  Its non-locking
\* SELECT of the matching host profile rows takes no lock, so a DELETE of
\* another connection may commit before the INSERT ... ON DUPLICATE KEY
\* UPDATE runs.  From that statement on the transaction holds the locks of
\* the rows it wrote, and the rest of it is taken as one step.
RaceDeviceIDs == {"D1"}

RaceResponses ==
    {[Raw |-> "<SyncML>", ops |-> <<ProtoOp(CmdStatus, "C1", "200", CmdAtomic, TRUE)>>],
     [Raw |-> "<SyncML>", ops |-> <<ProtoOp(CmdStatus, "C1", "400", CmdAtomic, TRUE)>>]}

\* The rows the dispatcher writes once it has sent command C1 for P1.
RaceRows ==
    {HostProfileRow("P1", h, "N1", MDMOperationTypeInstall,
                    MDMDeliveryPending, "", "C1") : h \in HostUUIDs}

InitRace ==
    /\ enrollments = InitEnrollments
    /\ commands = {c \in NewCommands : c.command_uuid = "C1"}
    /\ queue = {[enrollment_id |-> 1, command_uuid |-> "C1"]}
    /\ responses = <<>>
    /\ results = {}
    /\ profiles = InitProfiles
    /\ hosts = {[uuid |-> "H1", team_id |-> "1", platform |-> "windows"],
                [uuid |-> "H2", team_id |-> NULL, platform |-> "windows"]}
    /\ hostProfiles = RaceRows
    /\ enqueued = {[enrollment_id |-> 1, command_uuid |-> "C1"]}
    /\ inflight = NoTransactions
    /\ NoDiskEncryptionSignals
    /\ ret = [op |-> "init"]

\* MDMWindowsSaveResponse up to and including getMatchingHostProfilesStmt,
\* for a response that reaches it.
RaceSelect ==
    /\ Len(responses) < MaxResponses
    /\ \E deviceID \in RaceDeviceIDs, fullResponse \in RaceResponses :
        /\ inflight[deviceID].pc = "idle"
        /\ \E enrollment \in MDMWindowsGetEnrolledDeviceWithDeviceID(deviceID) :
            LET cmdUUIDs == TrackedCmdUUIDs(fullResponse.ops)
                matchingUUIDs == {c.command_uuid : c \in
                                     {x \in commands : x.command_uuid \in cmdUUIDs}}
                payloads == PotentialProfilePayloads(fullResponse.ops,
                                matchingUUIDs, enrollment.host_uuid)
            IN  /\ payloads # {}
                /\ inflight' = [inflight EXCEPT ![deviceID] =
                       [pc |-> "selected",
                        enrollment |-> enrollment,
                        fullResponse |-> fullResponse,
                        matchingUUIDs |-> matchingUUIDs,
                        payloads |-> payloads,
                        matching |-> MatchingHostProfiles(hostProfiles,
                                         enrollment.host_uuid,
                                         PayloadCommandUUIDs(payloads))]]
        /\ ret' = [op |-> "RaceSelect", err |-> "ok"]
        /\ UNCHANGED <<diskEncryptionVars, enrollments, commands, queue, responses, results,
                       profiles, hosts, hostProfiles, enqueued>>

\* The rest of the transaction: the batch update of the selected rows, the
\* result rows, the dequeue and the commit; or the rollback on an error.
\* When a selected row is gone the statement takes its INSERT path with the
\* columns it does not name left to the table's defaults: the row is
\* created, or the server rejects it where a column has no default.
RaceUpsert ==
    \E deviceID \in RaceDeviceIDs :
        /\ inflight[deviceID].pc = "selected"
        /\ \E insertFails \in BOOLEAN :
           LET t == inflight[deviceID]
               gone == \E r \in t.matching :
                          HostProfileKey(r) \notin HostProfileKeys(hostProfiles)
               upd == IF gone /\ insertFails
                      THEN [err |-> "error", hostProfiles |-> hostProfiles]
                      ELSE UpdateMatchingHostProfiles(hostProfiles, t.matching,
                                                      t.payloads)
               saved == Append(responses,
                               [enrollment_id |-> t.enrollment.id,
                                raw_response |-> t.fullResponse.Raw])
           IN  IF upd.err # "ok"
               THEN /\ ret' = [op |-> "RaceUpsert", err |-> upd.err]
                    /\ UNCHANGED <<diskEncryptionVars, responses, results, hostProfiles, queue>>
               ELSE /\ hostProfiles' = upd.hostProfiles
                    /\ responses' = saved
                    /\ results' = InsertResults(results,
                                      ResultRows(t.fullResponse.ops,
                                                 t.matchingUUIDs,
                                                 t.enrollment.id, Len(saved)))
                    /\ queue' = DequeueCommands(queue, t.enrollment.id,
                                                t.matchingUUIDs)
                    /\ ret' = [op |-> "RaceUpsert", err |-> "ok"]
        /\ inflight' = [inflight EXCEPT ![deviceID] = [pc |-> "idle"]]
        /\ UNCHANGED <<diskEncryptionVars, enrollments, commands, profiles, hosts, enqueued>>

\* BulkDeleteMDMWindowsHostsConfigProfiles on another connection
RaceBulkDelete ==
    \E profs \in (SUBSET hostProfiles) \ {{}} :
        /\ hostProfiles' = bulkDeleteMDMWindowsHostsConfigProfilesDB(hostProfiles, profs)
        /\ ret' = [op |-> "BulkDelete", err |-> "ok"]
        /\ UNCHANGED <<diskEncryptionVars, enrollments, commands, queue, responses, results,
                       profiles, hosts, enqueued, inflight>>

\* bulkSetPendingMDMWindowsHostProfilesDB on another connection
RaceApplyPending ==
    \E uuids \in (SUBSET HostUUIDs) \ {{}} :
        /\ hostProfiles' = bulkSetPendingMDMWindowsHostProfilesDB(hostProfiles, uuids)
        /\ ret' = [op |-> "ApplyPending", err |-> "ok"]
        /\ UNCHANGED <<diskEncryptionVars, enrollments, commands, queue, responses, results,
                       profiles, hosts, enqueued, inflight>>

\* BulkUpsertMDMWindowsHostProfiles on another connection
RaceDispatch ==
    \E row \in RaceRows :
        /\ hostProfiles' = BulkUpsertMDMWindowsHostProfiles(hostProfiles, <<row>>)
        /\ ret' = [op |-> "BulkUpsert", err |-> "ok"]
        /\ UNCHANGED <<diskEncryptionVars, enrollments, commands, queue, responses, results,
                       profiles, hosts, enqueued, inflight>>

NextRace ==
    \/ RaceSelect
    \/ RaceUpsert
    \/ RaceBulkDelete
    \/ RaceApplyPending
    \/ RaceDispatch

SpecRace == InitRace /\ [][NextRace]_vars

\* ------------------------------------- specification: delivery lifecycle
\* Command C1 carries profile P1 and is stored and queued for both devices.
\* The callers of BulkUpsertMDMWindowsHostProfiles follow the lifecycle: the
\* dispatcher marks a pair of the install list Pending with the command it
\* sent, the verifier settles a Verifying row as Verified or Failed.
LifecycleQueue ==
    {[enrollment_id |-> e.id, command_uuid |-> "C1"] : e \in InitEnrollments}

InitLifecycle ==
    /\ enrollments = InitEnrollments
    /\ commands = {c \in NewCommands : c.command_uuid = "C1"}
    /\ queue = LifecycleQueue
    /\ responses = <<>>
    /\ results = {}
    /\ profiles = InitProfiles
    /\ hosts = InitHosts
    /\ hostProfiles = {}
    /\ enqueued = LifecycleQueue
    /\ inflight = NoTransactions
    /\ NoDiskEncryptionSignals
    /\ ret = [op |-> "init"]

LifecycleApplyPending ==
    \E uuids \in (SUBSET HostUUIDs) \ {{}} :
        /\ hostProfiles' = bulkSetPendingMDMWindowsHostProfilesDB(hostProfiles, uuids)
        /\ ret' = [op |-> "ApplyPending", err |-> "ok"]
        /\ UNCHANGED <<diskEncryptionVars, enrollments, commands, queue, responses, results,
                       profiles, hosts, enqueued, inflight>>

LifecycleDispatch ==
    \E p \in listMDMWindowsProfilesToInstallDB(hostProfiles, {}) :
        /\ hostProfiles' = BulkUpsertMDMWindowsHostProfiles(hostProfiles,
               <<HostProfileRow(p.profile_uuid, p.host_uuid, p.profile_name,
                                MDMOperationTypeInstall, MDMDeliveryPending,
                                "", "C1")>>)
        /\ ret' = [op |-> "Dispatch", err |-> "ok"]
        /\ UNCHANGED <<diskEncryptionVars, enrollments, commands, queue, responses, results,
                       profiles, hosts, enqueued, inflight>>

LifecycleVerify ==
    \E r \in hostProfiles, status \in {MDMDeliveryVerified, MDMDeliveryFailed} :
        /\ r.operation_type = MDMOperationTypeInstall
        /\ r.status = MDMDeliveryVerifying
        /\ hostProfiles' = BulkUpsertMDMWindowsHostProfiles(hostProfiles,
               <<[r EXCEPT !.status = status,
                           !.detail = IF status = MDMDeliveryFailed
                                      THEN "mismatch" ELSE ""]>>)
        /\ ret' = [op |-> "Verify", err |-> "ok"]
        /\ UNCHANGED <<diskEncryptionVars, enrollments, commands, queue, responses, results,
                       profiles, hosts, enqueued, inflight>>

\* MDMWindowsSaveResponse for a Status of the atomic command C1: a first,
\* a duplicate or a late response.
LifecycleSaveResponse ==
    /\ Len(responses) < MaxResponses
    /\ \E deviceID \in DeviceIDs, fullResponse \in RaceResponses :
        LET r == MDMWindowsSaveResponse(deviceID, fullResponse)
        IN  /\ responses' = r.responses
            /\ results' = r.results
            /\ hostProfiles' = r.hostProfiles
            /\ queue' = r.queue
            /\ ret' = [op |-> "SaveResponse", err |-> r.err]
            /\ UNCHANGED <<diskEncryptionVars, enrollments, commands, profiles, hosts, enqueued,
                           inflight>>

NextLifecycle ==
    \/ LifecycleApplyPending
    \/ LifecycleDispatch
    \/ LifecycleVerify
    \/ LifecycleSaveResponse

SpecLifecycle == InitLifecycle /\ [][NextLifecycle]_vars

\* ------------------------------------ specification: profile batch set
\* The profiles of team 0 are replaced while the reconciler and the
\* dispatcher run.
\* Profile sets handed to the batch set: at most one content per name.
IncomingProfileSets ==
    {ps \in SUBSET ({"N1", "N2"} \X {"<a/>", "<b/>"}) :
        \A x, y \in ps : x[1] = y[1] => x = y}

BatchSetProfiles ==
    \E ps \in IncomingProfileSets :
        /\ Cardinality(FreeProfileUUIDs(profiles, hostProfiles)) >=
               Cardinality({x \in ps : \A q \in profiles :
                                          ~(q.team_id = "0" /\ q.name = x[1])})
        /\ profiles' = batchSetMDMWindowsProfilesDB(profiles, hostProfiles, NULL,
                           {[name |-> x[1], syncml |-> x[2]] : x \in ps})
        /\ ret' = [op |-> "BatchSetProfiles", err |-> "ok"]
        /\ UNCHANGED <<diskEncryptionVars, enrollments, commands, queue, responses, results,
                       hosts, hostProfiles, enqueued, inflight>>

NextProfiles ==
    \/ BatchSetProfiles
    \/ LifecycleApplyPending
    \/ LifecycleDispatch

SpecProfiles == InitLifecycle /\ [][NextProfiles]_vars

\* ------------------------------------------ specification: command queue
\* Commands of the same uuid with different payloads are created, queued
\* and answered.
QueueCommands ==
    {[command_uuid |-> u, raw_command |-> raw, target_loc_uri |-> "./Vendor"]
        : u \in CmdUUIDs, raw \in {"<Replace>", "<Add>"}}

QueueTargets == {"D1", "D2", "H1"}

QueueResponses ==
    {[Raw |-> "<SyncML>", ops |-> <<ProtoOp(CmdStatus, u, "200", "Replace", TRUE)>>]
        : u \in CmdUUIDs}

QueueCreateAndEnqueue ==
    \E targets \in SeqsUpTo(QueueTargets, MaxTargets), cmd \in QueueCommands :
        LET r == MDMWindowsInsertCommandForHosts(targets, cmd)
        IN  /\ commands' = r.commands
            /\ queue' = r.queue
            /\ enqueued' = enqueued \cup (r.queue \ queue)
            /\ ret' = [op |-> "CreateAndEnqueue", err |-> r.err]
            /\ UNCHANGED <<diskEncryptionVars, enrollments, responses, results, profiles, hosts,
                           hostProfiles, inflight>>

QueueSaveResponse ==
    /\ Len(responses) < MaxResponses
    /\ \E deviceID \in DeviceIDs, fullResponse \in QueueResponses :
        LET r == MDMWindowsSaveResponse(deviceID, fullResponse)
        IN  /\ responses' = r.responses
            /\ results' = r.results
            /\ hostProfiles' = r.hostProfiles
            /\ queue' = r.queue
            /\ ret' = [op |-> "SaveResponse", err |-> r.err]
            /\ UNCHANGED <<diskEncryptionVars, enrollments, commands, profiles, hosts, enqueued,
                           inflight>>

NextQueue ==
    \/ QueueCreateAndEnqueue
    \/ QueueSaveResponse

SpecQueue == Init /\ [][NextQueue]_vars

\* ------------------------------ specification: the pending commands query
\* MDMWindowsGetPendingCommands is a query over the queue and the results;
\* it is applied to every combination of queue entries and result rows of
\* the stored command C1, and to the tables the calls then leave.
PendingPairs ==
    {[enrollment_id |-> e.id, command_uuid |-> "C1"] : e \in InitEnrollments}

InitPending ==
    /\ enrollments = InitEnrollments
    /\ commands = {c \in NewCommands : c.command_uuid = "C1"}
    /\ queue \in SUBSET PendingPairs
    /\ responses = <<>>
    /\ results \in SUBSET {[enrollment_id |-> p.enrollment_id,
                            command_uuid |-> p.command_uuid,
                            raw_result |-> "", response_id |-> 0,
                            status_code |-> "200"] : p \in PendingPairs}
    /\ profiles = InitProfiles
    /\ hosts = InitHosts
    /\ hostProfiles = {}
    /\ enqueued = queue
    /\ inflight = NoTransactions
    /\ NoDiskEncryptionSignals
    /\ ret = [op |-> "init"]

SpecPending == InitPending /\ [][NextQueue]_vars

\* ------------- specification: a response racing with the enrollment registry
\* MDMWindowsSaveResponse resolves the enrollment of the device id before it
\* opens its transaction; registry calls of other connections commit
\* between the two.  Every attempt of the transaction function uses the
\* enrollment resolved before the first one.
MaxEnrollmentID == 3

IdentityDevices ==
    {[mdm_device_id |-> d, mdm_hardware_id |-> w[1], host_uuid |-> w[2]] :
        d \in {"D1", "D3"}, w \in {<<"W1", "H1">>, <<"W2", "H2">>}}

InitIdentity ==
    /\ enrollments = InitEnrollments
    /\ commands = {c \in NewCommands : c.command_uuid = "C1"}
    /\ queue = LifecycleQueue
    /\ responses = <<>>
    /\ results = {}
    /\ profiles = InitProfiles
    /\ hosts = InitHosts
    /\ hostProfiles = {}
    /\ enqueued = LifecycleQueue
    /\ inflight = NoTransactions
    /\ NoDiskEncryptionSignals
    /\ ret = [op |-> "init"]

\* MDMWindowsSaveResponse up to the call of withRetryTxx
IdentityResolve ==
    /\ Len(responses) < MaxResponses
    /\ \E deviceID \in RaceDeviceIDs, fullResponse \in QueueResponses :
        /\ inflight[deviceID].pc = "idle"
        /\ LET found == MDMWindowsGetEnrolledDeviceWithDeviceID(deviceID)
           IN  IF found = {}
               THEN /\ ret' = [op |-> "SaveResponse", err |-> "notFound"]
                    /\ UNCHANGED inflight
               ELSE /\ inflight' = [inflight EXCEPT ![deviceID] =
                           [pc |-> "resolved",
                            enrollment |-> CHOOSE e \in found : TRUE,
                            fullResponse |-> fullResponse]]
                    /\ ret' = [op |-> "Resolve", err |-> "ok"]
        /\ UNCHANGED <<diskEncryptionVars, enrollments, commands, queue, responses, results,
                       profiles, hosts, hostProfiles, enqueued>>

\* The attempt of the transaction function that commits.  When the resolved
\* enrollment row is gone, the rows that refer to it are written or the
\* server rejects them, as the tables' foreign keys decide.
IdentityCommit ==
    \E deviceID \in RaceDeviceIDs, rejected \in BOOLEAN :
        /\ inflight[deviceID].pc = "resolved"
        /\ LET t == inflight[deviceID]
               gone == \A e \in enrollments : e.id # t.enrollment.id
               r == IF gone /\ rejected
                    THEN [err |-> "error", responses |-> responses,
                          results |-> results, hostProfiles |-> hostProfiles,
                          queue |-> queue]
                    ELSE SaveResponseTx(t.enrollment, t.fullResponse)
           IN  /\ responses' = r.responses
               /\ results' = r.results
               /\ hostProfiles' = r.hostProfiles
               /\ queue' = r.queue
               /\ ret' = [op |-> "SaveResponse", err |-> r.err]
        /\ inflight' = [inflight EXCEPT ![deviceID] = [pc |-> "idle"]]
        /\ UNCHANGED <<diskEncryptionVars, enrollments, commands, profiles, hosts, enqueued>>

IdentityInsertEnrolledDevice ==
    \E device \in IdentityDevices, firstKey \in {"mdm_device_id", "mdm_hardware_id"} :
        LET r == MDMWindowsInsertEnrolledDevice(enrollments, device, firstKey)
        IN  /\ NextEnrollmentID <= MaxEnrollmentID
            /\ enrollments' = r.enrollments
            /\ ret' = [op |-> "InsertEnrolledDevice", err |-> r.err]
            /\ UNCHANGED <<diskEncryptionVars, commands, queue, responses, results, profiles,
                           hosts, hostProfiles, enqueued, inflight>>

IdentityDeleteEnrolledDevice ==
    \E mdmDeviceHWID \in {"W1", "W2"} :
        LET r == MDMWindowsDeleteEnrolledDevice(enrollments, mdmDeviceHWID)
        IN  /\ enrollments' = r.enrollments
            /\ ret' = [op |-> "DeleteEnrolledDevice", err |-> r.err]
            /\ UNCHANGED <<diskEncryptionVars, commands, queue, responses, results, profiles,
                           hosts, hostProfiles, enqueued, inflight>>

NextIdentity ==
    \/ IdentityResolve
    \/ IdentityCommit
    \/ IdentityInsertEnrolledDevice
    \/ IdentityDeleteEnrolledDevice

SpecIdentity == InitIdentity /\ [][NextIdentity]_vars

\* ------------------------------- specification: bulk writes in batches
\* The bulk operations run with every batch size up to MaxBatchSize on
\* payloads of up to MaxBatchRows rows, repeated keys included, and with
\* the statement of any one batch failing.
MaxBatchRows == 3
MaxBatchSize == 3

BatchRows ==
    {HostProfileRow("P1", "H1", "N1", MDMOperationTypeInstall,
                    MDMDeliveryPending, "", "C1"),
     HostProfileRow("P1", "H1", "N1", MDMOperationTypeInstall,
                    MDMDeliveryFailed, "e", "C1"),
     HostProfileRow("P2", "H1", "N2", MDMOperationTypeInstall,
                    MDMDeliveryPending, "", "C2"),
     HostProfileRow("P1", "H2", "N1", MDMOperationTypeRemove,
                    MDMDeliveryPending, "", "C1")}

BatchPayloads == SeqsUpTo(BatchRows, MaxBatchRows)

BatchSizes == 1..MaxBatchSize

\* BulkUpsertMDMWindowsHostProfiles; ret keeps the number of rows, the
\* number of statements they are sent in and the batch that failed.
BatchUpsert ==
    \E payload \in BatchPayloads, batchSize \in BatchSizes :
      \E failAt \in 0..Len(Batches(payload, batchSize)) :
        LET r == BulkUpsertInBatches(hostProfiles, payload, batchSize, failAt)
        IN  /\ hostProfiles' = r.hostProfiles
            /\ ret' = [op |-> "BulkUpsert", err |-> r.err,
                       rows |-> Len(payload),
                       batches |-> Len(Batches(payload, batchSize)),
                       failed |-> failAt]
            /\ UNCHANGED <<diskEncryptionVars, enrollments, commands, queue, responses, results,
                           profiles, hosts, enqueued, inflight>>

\* BulkDeleteMDMWindowsHostsConfigProfiles
BatchDelete ==
    \E profs \in BatchPayloads, batchSize \in BatchSizes :
      \E failAt \in 0..Len(Batches(profs, batchSize)) :
        LET r == BulkDeleteMDMWindowsHostsConfigProfiles(hostProfiles, profs,
                                                         batchSize, failAt)
        IN  /\ hostProfiles' = r.hostProfiles
            /\ ret' = [op |-> "BulkDelete", err |-> r.err,
                       rows |-> Len(profs),
                       batches |-> Len(Batches(profs, batchSize)),
                       failed |-> failAt]
            /\ UNCHANGED <<diskEncryptionVars, enrollments, commands, queue, responses, results,
                           profiles, hosts, enqueued, inflight>>

\* bulkSetPendingMDMWindowsHostProfilesDB in its own transaction, no
\* statement failing.
BatchApplyPending ==
    \E uuids \in SUBSET HostUUIDs, deleteBatchSize \in BatchSizes,
       upsertBatchSize \in BatchSizes :
      \E profilesToInstall \in
             RowOrders(listMDMWindowsProfilesToInstallDB(hostProfiles, uuids)),
         profilesToRemove \in
             RowOrders(listMDMWindowsProfilesToRemoveDB(hostProfiles, uuids)) :
        /\ hostProfiles' = bulkSetPendingInBatches(hostProfiles, uuids,
                               profilesToInstall, profilesToRemove,
                               deleteBatchSize, upsertBatchSize)
        /\ ret' = [op |-> "ApplyPending", err |-> "ok",
                   rows |-> Len(profilesToInstall) + Len(profilesToRemove),
                   batches |-> Len(Batches(profilesToInstall, upsertBatchSize))
                               + Len(Batches(profilesToRemove, deleteBatchSize)),
                   failed |-> 0]
        /\ UNCHANGED <<diskEncryptionVars, enrollments, commands, queue, responses, results,
                       profiles, hosts, enqueued, inflight>>

NextBatch ==
    \/ BatchUpsert
    \/ BatchDelete
    \/ BatchApplyPending

SpecBatch == InitReconcile /\ [][NextBatch]_vars

\* ------------------------ specification: disk encryption status of hosts
\* Two windows hosts of no team.  H1 has any combination of signal rows,
\* H2 has none, or those of a verified host, or those of a failed one.  The
\* key of a host is stored at KeyTime; the disk is reported at any time up
\* to MaxTime, and the queries run at any time from the last timestamp on.
MaxTime == 4
KeyTime == 1

Times == 0..MaxTime

MDMRows(hostID) ==
    {[host_id |-> hostID, is_server |-> s] : s \in {NULL, "0", "1"}}

KeyRows(hostID) ==
    {[host_id |-> hostID, base64_encrypted |-> k[1], decryptable |-> k[2],
      client_error |-> e, updated_at |-> KeyTime]
        : k \in {<<"k", "1">>, <<"k", "0">>, <<"k", NULL>>, <<"", "1">>,
                 <<NULL, "1">>},
          e \in {NULL, "", "e"}}

DiskRows(hostID) ==
    {[host_id |-> hostID, encrypted |-> x, updated_at |-> t]
        : x \in {NULL, "0", "1"}, t \in Times}

\* At most one row of a table per host.
AtMostOne(S) == {{}} \cup {{r} : r \in S}

BitLockerHosts ==
    {[uuid |-> "H1", team_id |-> NULL, platform |-> "windows"],
     [uuid |-> "H2", team_id |-> NULL, platform |-> "windows"]}

\* The signal rows of H2: <<host_mdm, host_disk_encryption_keys, host_disks>>
OtherHostSignals ==
    {<<{}, {}, {}>>,
     <<{[host_id |-> "H2", is_server |-> "0"]},
       {[host_id |-> "H2", base64_encrypted |-> "k", decryptable |-> "1",
         client_error |-> NULL, updated_at |-> KeyTime]},
       {[host_id |-> "H2", encrypted |-> "1", updated_at |-> KeyTime]}>>,
     <<{[host_id |-> "H2", is_server |-> "0"]},
       {[host_id |-> "H2", base64_encrypted |-> "k", decryptable |-> "1",
         client_error |-> "e", updated_at |-> KeyTime]},
       {}>>}

LastTimestamp == MaxOfSet({0} \cup {r.updated_at : r \in hostDiskEncryptionKeys \cup hostDisks})

InitBitLocker ==
    /\ enrollments = InitEnrollments
    /\ commands = {}
    /\ queue = {}
    /\ responses = <<>>
    /\ results = {}
    /\ profiles = InitProfiles
    /\ hosts = BitLockerHosts
    /\ hostProfiles = {}
    /\ enqueued = {}
    /\ inflight = NoTransactions
    /\ \E other \in OtherHostSignals :
          /\ hostMDM \in {m \cup other[1] : m \in AtMostOne(MDMRows("H1"))}
          /\ hostDiskEncryptionKeys
                \in {k \cup other[2] : k \in AtMostOne(KeyRows("H1"))}
          /\ hostDisks \in {d \cup other[3] : d \in AtMostOne(DiskRows("H1"))}
    /\ enableDiskEncryption \in {{}, {NULL}}
    /\ now \in Times
    /\ now >= LastTimestamp
    /\ ret = [op |-> "init"]

\* GetMDMWindowsBitLockerStatus for a host of the hosts table
BitLockerStatus ==
    \E h \in hosts, nullScan \in NullScanOutcomes :
        LET r == GetMDMWindowsBitLockerStatus(HostStruct(h), now, nullScan)
        IN  /\ ret' = [op |-> "Status", err |-> r.err, host |-> h.uuid,
                       status |-> r.status]
            /\ UNCHANGED <<diskEncryptionVars, enrollments, commands, queue,
                           responses, results, profiles, hosts, hostProfiles,
                           enqueued, inflight>>

\* GetMDMWindowsBitLockerSummary
BitLockerSummary ==
    \E teamID \in {NULL, "0", "1"} :
        /\ ret' = [op |-> "Summary", err |-> "ok", teamID |-> teamID,
                   summary |-> GetMDMWindowsBitLockerSummary(teamID)]
        /\ UNCHANGED <<diskEncryptionVars, enrollments, commands, queue,
                       responses, results, profiles, hosts, hostProfiles,
                       enqueued, inflight>>

\* Half an hour passes.
Tick ==
    /\ now < MaxTime
    /\ now' = now + 1
    /\ ret' = [op |-> "Tick", err |-> "ok"]
    /\ UNCHANGED <<hostMDM, hostDiskEncryptionKeys, hostDisks,
                   enableDiskEncryption, enrollments, commands, queue,
                   responses, results, profiles, hosts, hostProfiles,
                   enqueued, inflight>>

NextBitLocker ==
    \/ BitLockerStatus
    \/ BitLockerSummary
    \/ Tick

SpecBitLocker == InitBitLocker /\ [][NextBitLocker]_vars

\* -------------------- specification: profile and disk encryption summary
\* Two windows hosts of no team.  H1 has any row for the profile P1, an
\* install row for P2 or none, any of the host_mdm rows below and the disk
\* encryption signals of each class; H2 is enrolled, its disk encryption
\* is verified, and it has no profile row, or one failed, or one verified.
SummaryProfileRows(hostUUID, profileUUID) ==
    {HostProfileRow(profileUUID, hostUUID, "N", op, st, "", "C1")
        : op \in {MDMOperationTypeInstall, MDMOperationTypeRemove},
          st \in {NULL, MDMDeliveryPending, MDMDeliveryFailed,
                  MDMDeliveryVerifying, MDMDeliveryVerified}}

SummaryMDMRows(hostID) ==
    {[host_id |-> hostID, is_server |-> "0", enrolled |-> "1", mdm_id |-> "1"],
     [host_id |-> hostID, is_server |-> "1", enrolled |-> "1", mdm_id |-> "1"],
     [host_id |-> hostID, is_server |-> "0", enrolled |-> "0", mdm_id |-> "1"],
     [host_id |-> hostID, is_server |-> "0", enrolled |-> "1", mdm_id |-> "2"]}

\* <<host_disk_encryption_keys, host_disks>> of a host: no signal, failed,
\* verified, verifying (disk reported before the key), not encrypted at the
\* time of the key.
SummaryKeyRow(hostID, clientError) ==
    [host_id |-> hostID, base64_encrypted |-> "k", decryptable |-> "1",
     client_error |-> clientError, updated_at |-> KeyTime]

SummaryDiskRow(hostID, encrypted, t) ==
    [host_id |-> hostID, encrypted |-> encrypted, updated_at |-> t]

SummarySignals(hostID) ==
    {<<{}, {}>>,
     <<{SummaryKeyRow(hostID, "e")}, {SummaryDiskRow(hostID, "1", KeyTime)}>>,
     <<{SummaryKeyRow(hostID, NULL)}, {SummaryDiskRow(hostID, "1", KeyTime)}>>,
     <<{SummaryKeyRow(hostID, NULL)}, {SummaryDiskRow(hostID, "1", 0)}>>,
     <<{SummaryKeyRow(hostID, NULL)}, {SummaryDiskRow(hostID, "0", KeyTime)}>>}

InitSummary ==
    /\ enrollments = InitEnrollments
    /\ commands = {}
    /\ queue = {}
    /\ responses = <<>>
    /\ results = {}
    /\ profiles = InitProfiles
    /\ hosts = BitLockerHosts
    /\ \E r1 \in AtMostOne(SummaryProfileRows("H1", "P1")),
          r2 \in AtMostOne({r \in SummaryProfileRows("H1", "P2") :
                               /\ r.operation_type = MDMOperationTypeInstall
                               /\ r.status # MDMDeliveryPending}),
          r3 \in AtMostOne({HostProfileRow("P1", "H2", "N", MDMOperationTypeInstall,
                                           st, "", "C1")
                               : st \in {MDMDeliveryFailed, MDMDeliveryVerified}}) :
          hostProfiles = r1 \cup r2 \cup r3
    /\ enqueued = {}
    /\ inflight = NoTransactions
    /\ \E m \in AtMostOne(SummaryMDMRows("H1")) :
          hostMDM = m \cup {[host_id |-> "H2", is_server |-> "0",
                             enrolled |-> "1", mdm_id |-> "1"]}
    /\ \E s1 \in SummarySignals("H1") :
          /\ hostDiskEncryptionKeys = s1[1] \cup {SummaryKeyRow("H2", NULL)}
          /\ hostDisks = s1[2] \cup {SummaryDiskRow("H2", "1", KeyTime)}
    /\ enableDiskEncryption \in {{}, {NULL}}
    /\ now \in Times
    /\ now >= LastTimestamp
    /\ ret = [op |-> "init"]

\* GetMDMWindowsProfilesSummary
ProfilesSummary ==
    \E teamID \in {NULL, "0", "1"} :
        /\ ret' = [op |-> "ProfilesSummary", teamID |-> teamID,
                   summary |-> GetMDMWindowsProfilesSummary(teamID)]
        /\ UNCHANGED <<diskEncryptionVars, enrollments, commands, queue,
                       responses, results, profiles, hosts, hostProfiles,
                       enqueued, inflight>>

NextSummary ==
    \/ ProfilesSummary
    \/ Tick

SpecSummary == InitSummary /\ [][NextSummary]_vars

\* ------------------- specification: a profile from assignment to removal
\* The delivery lifecycle, and the profile may be deleted.
ConvergeDeleteProfile ==
    \E profileUUID \in ProfileUUIDs :
        LET r == DeleteMDMWindowsConfigProfile(profiles, profileUUID)
        IN  /\ profiles' = r.profiles
            /\ ret' = [op |-> "DeleteProfile", err |-> r.err]
            /\ UNCHANGED <<diskEncryptionVars, enrollments, commands, queue,
                           responses, results, hosts, hostProfiles, enqueued,
                           inflight>>

NextConverge ==
    \/ LifecycleApplyPending
    \/ LifecycleDispatch
    \/ LifecycleVerify
    \/ LifecycleSaveResponse
    \/ ConvergeDeleteProfile

SpecConverge == InitLifecycle /\ [][NextConverge]_vars

\* --------------------------- specification: the enrollment registry alone
\* Devices enroll, re-enroll with another device id or hardware id, are
\* linked to hosts and are deleted by either key.
EnrollDevices ==
    {[mdm_device_id |-> d, mdm_hardware_id |-> w, host_uuid |-> h] :
        d \in {"D1", "D2"}, w \in {"W1", "W2", "W3"}, h \in {"H1", "H2"}}

EnrollInsertEnrolledDevice ==
    \E device \in EnrollDevices, firstKey \in {"mdm_device_id", "mdm_hardware_id"} :
        LET r == MDMWindowsInsertEnrolledDevice(enrollments, device, firstKey)
        IN  /\ NextEnrollmentID <= MaxEnrollmentID
            /\ enrollments' = r.enrollments
            /\ ret' = [op |-> "InsertEnrolledDevice", err |-> r.err,
                       device |-> device]
            /\ UNCHANGED <<diskEncryptionVars, commands, queue, responses,
                           results, profiles, hosts, hostProfiles, enqueued,
                           inflight>>

EnrollDeleteEnrolledDevice ==
    \E mdmDeviceHWID \in {"W1", "W2", "W3"} :
        LET r == MDMWindowsDeleteEnrolledDevice(enrollments, mdmDeviceHWID)
        IN  /\ enrollments' = r.enrollments
            /\ ret' = [op |-> "DeleteEnrolledDevice", err |-> r.err,
                       key |-> mdmDeviceHWID]
            /\ UNCHANGED <<diskEncryptionVars, commands, queue, responses,
                           results, profiles, hosts, hostProfiles, enqueued,
                           inflight>>

EnrollDeleteEnrolledDeviceWithDeviceID ==
    \E mdmDeviceID \in {"D1", "D2", "D3"} :
        LET r == MDMWindowsDeleteEnrolledDeviceWithDeviceID(enrollments, mdmDeviceID)
        IN  /\ enrollments' = r.enrollments
            /\ ret' = [op |-> "DeleteEnrolledDeviceWithDeviceID", err |-> r.err,
                       key |-> mdmDeviceID]
            /\ UNCHANGED <<diskEncryptionVars, commands, queue, responses,
                           results, profiles, hosts, hostProfiles, enqueued,
                           inflight>>

EnrollUpdateHostUUID ==
    \E hostUUID \in {"H1", "H2"}, mdmDeviceID \in {"D1", "D2", "D3"} :
        LET r == UpdateMDMWindowsEnrollmentsHostUUID(enrollments, hostUUID, mdmDeviceID)
        IN  /\ enrollments' = r.enrollments
            /\ ret' = [op |-> "UpdateHostUUID", err |-> r.err, key |-> mdmDeviceID]
            /\ UNCHANGED <<diskEncryptionVars, commands, queue, responses,
                           results, profiles, hosts, hostProfiles, enqueued,
                           inflight>>

NextEnroll ==
    \/ EnrollInsertEnrolledDevice
    \/ EnrollDeleteEnrolledDevice
    \/ EnrollDeleteEnrolledDeviceWithDeviceID
    \/ EnrollUpdateHostUUID

SpecEnroll == InitIdentity /\ [][NextEnroll]_vars

\* ------------------------------------------------------------------ claims
EnrollmentIDsOf(deviceID) ==
    {e.id : e \in MDMWindowsGetEnrolledDeviceWithDeviceID(deviceID)}

CommandUUIDs == {c.command_uuid : c \in commands}

HasResult(res, enrollmentID, commandUUID) ==
    \E r \in res : r.enrollment_id = enrollmentID /\ r.command_uuid = commandUUID

PendingUUIDs(q, res, deviceID) ==
    {c.command_uuid : c \in PendingCommands(q, res, deviceID)}

\* C1: in every reachable state, for every device D and response, if
\* MDMWindowsSaveResponse succeeds then for each command C that a kept
\* (trackable, referencing) Status or Results operation names and that is
\* stored and queued for D, the tables it commits hold no queue entry (D, C)
\* and MDMWindowsGetPendingCommands(D) does not return C.
C1_DequeueOnOutcome ==
    \A deviceID \in DeviceIDs, fullResponse \in FullResponses :
        LET r == MDMWindowsSaveResponse(deviceID, fullResponse)
        IN  r.err = "ok" =>
            \A id \in EnrollmentIDsOf(deviceID),
               c \in TrackedCmdUUIDs(fullResponse.ops) \cap CommandUUIDs :
                [enrollment_id |-> id, command_uuid |-> c] \in queue =>
                    /\ [enrollment_id |-> id, command_uuid |-> c] \notin r.queue
                    /\ c \notin PendingUUIDs(r.queue, r.results, deviceID)

\* A response of one device was correlated: two commands once queued for it
\* are dequeued and have results of that device, one with a failure code and
\* one with a success code.
C1_Witness ==
    /\ ret.op = "SaveResponse" /\ ret.err = "ok"
    /\ \E q1 \in enqueued \ queue, q2 \in enqueued \ queue :
          /\ q1.enrollment_id = q2.enrollment_id
          /\ \E r1 \in results, r2 \in results :
                /\ r1.enrollment_id = q1.enrollment_id
                /\ r1.command_uuid = q1.command_uuid
                /\ r1.status_code = "400"
                /\ r2.enrollment_id = q2.enrollment_id
                /\ r2.command_uuid = q2.command_uuid
                /\ r2.status_code = "200"

\* C2: a step of MDMWindowsSaveResponse removes only queue entries of the
\* responding device's enrollment (the enrollment of the response record it
\* stores), and leaves the pending commands of every other device as they were.
C2_DequeuePerDevice ==
    [][ret'.op = "SaveResponse" =>
         /\ \A q \in queue \ queue' :
               /\ Len(responses') > Len(responses)
               /\ q.enrollment_id = responses'[Len(responses')].enrollment_id
         /\ \A e \in enrollments :
               (Len(responses') > Len(responses)
                /\ e.id # responses'[Len(responses')].enrollment_id)
               => PendingCommands(queue', results', e.mdm_device_id)
                    = PendingCommands(queue, results, e.mdm_device_id)]_vars

\* C3: every (enrollment, command) pair ever queued has either a queue entry
\* and no command result, or a command result and no queue entry.
C3_QueueEntryLifetime ==
    \A p \in enqueued :
        (p \in queue) # HasResult(results, p.enrollment_id, p.command_uuid)

\* C4: in every reachable state, for every device and response, if
\* MDMWindowsSaveResponse succeeds then each result row that existed before
\* for a matched command keeps its status code unless the response has a
\* non-empty status code for it, and keeps its result bytes unless the
\* response has non-empty result bytes for it.
C4_MergeOnNonEmpty ==
    \A deviceID \in DeviceIDs, fullResponse \in FullResponses :
        LET r == MDMWindowsSaveResponse(deviceID, fullResponse)
            ops == fullResponse.ops
        IN  r.err = "ok" =>
            \A old \in results :
                (/\ old.enrollment_id \in EnrollmentIDsOf(deviceID)
                 /\ old.command_uuid \in TrackedCmdUUIDs(ops))
                => \E new \in r.results :
                      /\ new.enrollment_id = old.enrollment_id
                      /\ new.command_uuid = old.command_uuid
                      /\ new.status_code =
                            IF StatusCodeFor(ops, old.command_uuid) # ""
                            THEN StatusCodeFor(ops, old.command_uuid)
                            ELSE old.status_code
                      /\ new.raw_result =
                            IF RawResultFor(ops, old.command_uuid) # ""
                            THEN RawResultFor(ops, old.command_uuid)
                            ELSE old.raw_result

\* C5: a step of MDMWindowsSaveResponse leaves the set of (profile, host)
\* keys of host_mdm_windows_profiles as it was.
C5_ResponseKeepsKeys ==
    [][ret'.op = "SaveResponse" =>
         HostProfileKeys(hostProfiles') = HostProfileKeys(hostProfiles)]_vars

\* A response was correlated and has set a row of the table to verifying.
C5_Witness ==
    /\ ret.op = "SaveResponse" /\ ret.err = "ok"
    /\ \E r \in hostProfiles : r.status = MDMDeliveryVerifying

\* C6: the step of a response correlation that writes the statuses creates
\* no host profile row, whatever other connections committed since the
\* correlation looked for the existing rows: a row deleted in between is
\* not there afterwards, as in both serial orders of the two operations.
C6_NoRowCreatedByResponse ==
    [][ret'.op = "RaceUpsert" =>
          HostProfileKeys(hostProfiles') \subseteq HostProfileKeys(hostProfiles)]_vars

\* The desired pairs of the reconciler under a host filter: the profile's
\* team is the host's team (a host without a team counts as team 0), the host
\* is a windows host, has an MDM enrollment, and passes the filter.
DesiredPairs(hostUUIDs) ==
    {<<p.profile_uuid, h.uuid>> : <<p, h>> \in
        {x \in profiles \X hosts :
            /\ x[1].team_id = (IF x[2].team_id = NULL THEN "0" ELSE x[2].team_id)
            /\ x[2].platform = "windows"
            /\ \E e \in enrollments : e.host_uuid = x[2].uuid
            /\ (hostUUIDs = {} \/ x[2].uuid \in hostUUIDs)}}

\* The desired pairs without the enrollment condition.
DesiredPairsAnyHost(hostUUIDs) ==
    {<<p.profile_uuid, h.uuid>> : <<p, h>> \in
        {x \in profiles \X hosts :
            /\ x[1].team_id = (IF x[2].team_id = NULL THEN "0" ELSE x[2].team_id)
            /\ x[2].platform = "windows"
            /\ (hostUUIDs = {} \/ x[2].uuid \in hostUUIDs)}}

ActualPairs(hp, hostUUIDs) ==
    {k \in HostProfileKeys(hp) : hostUUIDs = {} \/ k[2] \in hostUUIDs}

NotDispatchedInstall(r) ==
    r.operation_type = MDMOperationTypeInstall /\ r.status = NULL

C8_InstallSetAsStated ==
    \A hostUUIDs \in SUBSET ReconcileHostUUIDs :
        HostProfileKeys(listMDMWindowsProfilesToInstallDB(hostProfiles, hostUUIDs))
          = (DesiredPairsAnyHost(hostUUIDs) \ HostProfileKeys(hostProfiles))
            \cup {HostProfileKey(r) : r \in
                    {x \in hostProfiles :
                        /\ NotDispatchedInstall(x)
                        /\ (hostUUIDs = {} \/ x.host_uuid \in hostUUIDs)}}

\* C8 amended: the install list is exactly the desired pairs of enrolled
\* hosts that have no row or whose row has operation install and status
\* NULL; no pair whose row has a status is in it.
C8_InstallSetExact ==
    \A hostUUIDs \in SUBSET ReconcileHostUUIDs :
        LET I == HostProfileKeys(listMDMWindowsProfilesToInstallDB(hostProfiles, hostUUIDs))
        IN  /\ I = {k \in DesiredPairs(hostUUIDs) :
                      \/ k \notin HostProfileKeys(hostProfiles)
                      \/ \E r \in hostProfiles :
                            HostProfileKey(r) = k /\ NotDispatchedInstall(r)}
            /\ \A r \in hostProfiles : r.status # NULL => HostProfileKey(r) \notin I

\* A state with a desired pair whose row is install with status NULL, a
\* desired pair whose row has a status, a row install with status NULL that
\* is not desired any more, and a matching host without an enrollment.
C8_Witness ==
    /\ DesiredPairsAnyHost({}) \ DesiredPairs({}) # {}
    /\ \E r \in hostProfiles :
          NotDispatchedInstall(r) /\ HostProfileKey(r) \in DesiredPairs({})
    /\ \E r \in hostProfiles :
          r.status # NULL /\ HostProfileKey(r) \in DesiredPairs({})
    /\ \E r \in hostProfiles :
          NotDispatchedInstall(r) /\ HostProfileKey(r) \notin DesiredPairs({})

InstallStatus(hp, k) ==
    IF \E r \in hp : HostProfileKey(r) = k /\ r.operation_type = MDMOperationTypeInstall
    THEN (CHOOSE r \in hp : HostProfileKey(r) = k).status
    ELSE "absent"

\* C11: in every step the status of an install row never goes from
\* Verified or Failed back to Verifying or Pending, nor from Verified to
\* Failed.
C11_LifecycleForwardOnly ==
    [][\A k \in HostProfileKeys(hostProfiles) :
          LET old == InstallStatus(hostProfiles, k)
              new == InstallStatus(hostProfiles', k)
          IN  /\ old \in {MDMDeliveryVerified, MDMDeliveryFailed}
                    => new \notin {MDMDeliveryVerifying, MDMDeliveryPending}
              /\ old = MDMDeliveryVerified => new # MDMDeliveryFailed]_vars

\* C12: a batch set that replaces the content of an existing profile (same
\* team and name, other content) leaves every host profile row of that
\* profile with status NULL.
C12_ContentEditResetsRows ==
    [][ret'.op = "BatchSetProfiles" =>
          \A old \in profiles, new \in profiles' :
              (/\ old.team_id = new.team_id
               /\ old.name = new.name
               /\ old.syncml # new.syncml)
              => \A r \in hostProfiles' :
                    r.profile_uuid = new.profile_uuid => r.status = NULL]_vars

\* For every host filter, a desired pair whose row has a status is in
\* neither list and bulkSetPendingMDMWindowsHostProfilesDB keeps its row as
\* it is.
SettledRowsAreLeftAlone ==
    \A uuids \in SUBSET HostUUIDs :
        \A r \in hostProfiles :
            (/\ r.status \in {MDMDeliveryFailed, MDMDeliveryPending,
                              MDMDeliveryVerifying, MDMDeliveryVerified}
             /\ HostProfileKey(r) \in DesiredPairs({}))
            => /\ HostProfileKey(r) \notin HostProfileKeys(
                      listMDMWindowsProfilesToInstallDB(hostProfiles, uuids))
               /\ HostProfileKey(r) \notin HostProfileKeys(
                      listMDMWindowsProfilesToRemoveDB(hostProfiles, uuids))
               /\ r \in bulkSetPendingMDMWindowsHostProfilesDB(hostProfiles, uuids)

\* C13: every step leads to a state where the desired pairs whose row is
\* Failed, Pending, Verifying or Verified are in neither the install nor the
\* remove list and are kept unchanged by ApplyPending, and a step of
\* MDMWindowsSaveResponse adds no queue entry.
C13_NoAutomaticRetry ==
    [][/\ SettledRowsAreLeftAlone'
       /\ (ret'.op = "SaveResponse" => queue' \subseteq queue)]_vars

\* The state after a response that failed a dispatched profile: the row is
\* failed, still desired, and the queue entry of the command is gone.
C13_Witness ==
    /\ ret.op = "SaveResponse" /\ ret.err = "ok"
    /\ \E r \in hostProfiles :
          /\ r.status = MDMDeliveryFailed
          /\ HostProfileKey(r) \in DesiredPairs({})
          /\ \E e \in enrollments :
                /\ e.host_uuid = r.host_uuid
                /\ [enrollment_id |-> e.id, command_uuid |-> r.command_uuid]
                      \in enqueued \ queue

\* The enrollments a target identity names, by host uuid or by device id.
EnrollmentsOfTarget(target) ==
    {e.id : e \in {x \in enrollments :
                      x.host_uuid = target \/ x.mdm_device_id = target}}

\* C14: in every reachable state, for every target list and command, a call
\* of MDMWindowsInsertCommandForHosts that returns an error leaves commands
\* and queue as they were; it returns an error when the command uuid is
\* stored already, when a target names no enrollment, or when two targets
\* name the same enrollment; and when it succeeds for a non-empty list the
\* command is stored and the new queue entries are exactly one per target.
C14_CreateAndEnqueueAllOrNothing ==
    \A targets \in SeqsUpTo(TargetIdentities, MaxTargets), cmd \in NewCommands :
        LET r == MDMWindowsInsertCommandForHosts(targets, cmd)
            n == Len(targets)
        IN  /\ r.err # "ok" => r.commands = commands /\ r.queue = queue
            /\ (/\ n > 0
                /\ \/ \E c \in commands : c.command_uuid = cmd.command_uuid
                   \/ \E i \in 1..n : EnrollmentsOfTarget(targets[i]) = {}
                   \/ \E i, j \in 1..n :
                         /\ i # j
                         /\ EnrollmentsOfTarget(targets[i])
                              \cap EnrollmentsOfTarget(targets[j]) # {})
               => r.err # "ok"
            /\ (r.err = "ok" /\ n > 0)
               => /\ r.commands = commands \cup {cmd}
                  /\ cmd \notin commands
                  /\ queue \subseteq r.queue
                  /\ Cardinality(r.queue \ queue) = n
                  /\ \A i \in 1..n : \E e \in EnrollmentsOfTarget(targets[i]) :
                        [enrollment_id |-> e, command_uuid |-> cmd.command_uuid]
                           \in r.queue \ queue
                  /\ \A q \in r.queue \ queue :
                        /\ q.command_uuid = cmd.command_uuid
                        /\ \E i \in 1..n : q.enrollment_id \in EnrollmentsOfTarget(targets[i])

\* The state after a first call that failed on a repeated (enrollment,
\* command) pair: nothing is stored.
C14_Witness ==
    /\ ret.op = "CreateAndEnqueue"
    /\ ret.err = "alreadyExists"
    /\ commands = {}
    /\ queue = {}

\* For every non-empty target list and every command whose uuid is stored,
\* MDMWindowsInsertCommandForHosts returns alreadyExists and leaves commands
\* and queue as they are.
DuplicateCommandRejected ==
    \A targets \in SeqsUpTo(QueueTargets, MaxTargets) \ {<<>>},
       cmd \in QueueCommands :
        (\E c \in commands : c.command_uuid = cmd.command_uuid)
        => LET r == MDMWindowsInsertCommandForHosts(targets, cmd)
           IN  /\ r.err = "alreadyExists"
               /\ r.commands = commands
               /\ r.queue = queue

\* C15: every step keeps every stored command as it is (same payload and
\* target path under its uuid), and leads to a state where a call for a
\* stored uuid is rejected with alreadyExists and changes nothing.
C15_CommandsImmutable ==
    [][/\ \A c \in commands :
             /\ c \in commands'
             /\ \A d \in commands' : d.command_uuid = c.command_uuid => d = c
       /\ DuplicateCommandRejected']_vars

\* The state after a call that was rejected for its stored uuid, the stored
\* command having another payload than some command the call could carry,
\* and its queue entries still there.
C15_Witness ==
    /\ ret.op = "CreateAndEnqueue"
    /\ ret.err = "alreadyExists"
    /\ \E c \in commands : c.raw_command = "<Replace>"
          /\ \E q \in queue : q.command_uuid = c.command_uuid

\* C16: in every reachable state and for every device id, known or not,
\* MDMWindowsGetPendingCommands returns exactly the stored commands that
\* have a queue entry for an enrollment of that device and no result row
\* for that enrollment and command.
C16_GetPendingAntiJoin ==
    \A deviceID \in DeviceIDs \cup {"X"} :
        MDMWindowsGetPendingCommands(deviceID)
          = {c \in commands :
                \E id \in EnrollmentIDsOf(deviceID) :
                    /\ [enrollment_id |-> id, command_uuid |-> c.command_uuid]
                          \in queue
                    /\ ~ HasResult(results, id, c.command_uuid)}

\* A state where D1 has a queued command with a result (not returned) and
\* another command is queued for D2 only, without a result (returned to D2,
\* not to D1).
C16_Witness ==
    /\ \E q \in queue : q.enrollment_id = 1
          /\ HasResult(results, 1, q.command_uuid)
          /\ q.command_uuid \notin PendingUUIDs(queue, results, "D1")
    /\ \E q \in queue : q.enrollment_id = 2
          /\ [enrollment_id |-> 1, command_uuid |-> q.command_uuid] \notin queue
          /\ q.command_uuid \in PendingUUIDs(queue, results, "D2")
          /\ q.command_uuid \notin PendingUUIDs(queue, results, "D1")

\* C17: in every reachable state, for every device id and response, a call
\* of MDMWindowsSaveResponse that does not succeed leaves responses,
\* results, host profile rows and queue as they were.
C17_CorrelationAtomic ==
    \A deviceID \in DeviceIDs \cup {"X"}, fullResponse \in FullResponses :
        LET r == MDMWindowsSaveResponse(deviceID, fullResponse)
        IN  r.err # "ok"
            => /\ r.responses = responses
               /\ r.results = results
               /\ r.hostProfiles = hostProfiles
               /\ r.queue = queue

\* The state after a call that failed inside its transaction, after the
\* statement that saves the response, for a stored and queued command:
\* no response is stored and the queue entry is still there.
C17_Witness ==
    /\ ret.op = "SaveResponse"
    /\ ret.err \in {"error", "panic"}
    /\ responses = <<>>
    /\ results = {}
    /\ \E q \in queue : \E c \in commands : c.command_uuid = q.command_uuid

\* C18: the step that commits a response of device D links the response
\* record and the result rows it writes to an enrollment that D resolves to
\* when that step starts.
C18_NoStaleIdentity ==
    [][\A deviceID \in RaceDeviceIDs :
          (/\ inflight[deviceID].pc = "resolved"
           /\ inflight'[deviceID].pc = "idle"
           /\ Len(responses') > Len(responses))
          => /\ responses'[Len(responses')].enrollment_id
                   \in EnrollmentIDsOf(deviceID)
             /\ \A r \in results' \ results :
                   r.enrollment_id \in EnrollmentIDsOf(deviceID)]_vars

\* C19: in every reachable state, for every enrolled device and every
\* response that references, in a kept operation, a uuid of no stored
\* command, MDMWindowsSaveResponse succeeds, appends the response record of
\* the device's enrollment, has a result row for every matched command,
\* writes result rows and deletes queue entries for matched commands only,
\* and leaves no result row for an unmatched uuid.
C19_UnmatchedReferencesAreNotErrors ==
    \A deviceID \in DeviceIDs, fullResponse \in FullResponses :
        LET refs == TrackedCmdUUIDs(fullResponse.ops)
            matched == refs \cap CommandUUIDs
            r == MDMWindowsSaveResponse(deviceID, fullResponse)
        IN  (fullResponse.Raw # "" /\ refs \ CommandUUIDs # {})
            => /\ r.err = "ok"
               /\ Len(r.responses) = Len(responses) + 1
               /\ r.responses[Len(r.responses)].enrollment_id
                     \in EnrollmentIDsOf(deviceID)
               /\ \A u \in matched : \A id \in EnrollmentIDsOf(deviceID) :
                     HasResult(r.results, id, u)
               /\ \A x \in r.results \ results : x.command_uuid \in matched
               /\ \A x \in r.results : x.command_uuid \notin refs \ CommandUUIDs
               /\ \A q \in queue \ r.queue : q.command_uuid \in matched

AppliedUpserts(hp, rows) ==
    {r \in hp : \A i \in DOMAIN rows : HostProfileKey(rows[i]) # HostProfileKey(r)}
    \cup {rows[i] : i \in {k \in DOMAIN rows :
                              \A j \in DOMAIN rows :
                                  HostProfileKey(rows[j]) = HostProfileKey(rows[k])
                                      => j <= k}}

\* The number of statements a payload of n rows is sent in.
NumBatches(n, batchSize) == (n + batchSize - 1) \div batchSize

\* C21: in every reachable state, for every payload and batch size,
\* BulkUpsertMDMWindowsHostProfiles with no failing batch returns nil and
\* has applied every row, those of a final partial batch included; with
\* batch k failing it returns the error and has applied exactly the rows of
\* batches 1..k-1.
C21_UpsertCommitsBatchByBatch ==
    \A payload \in BatchPayloads, batchSize \in BatchSizes :
        \A failAt \in 0..NumBatches(Len(payload), batchSize) :
            LET r == BulkUpsertInBatches(hostProfiles, payload, batchSize, failAt)
                before == SubSeq(payload, 1, (failAt - 1) * batchSize)
            IN  IF failAt = 0
                THEN /\ r.err = "ok"
                     /\ r.hostProfiles = AppliedUpserts(hostProfiles, payload)
                ELSE /\ r.err = "error"
                     /\ r.hostProfiles = AppliedUpserts(hostProfiles, before)

\* A bulk upsert of three rows failed in its second batch and rows are
\* stored.
C21_Witness ==
    /\ ret.op = "BulkUpsert"
    /\ ret.err = "error"
    /\ ret.rows = 3
    /\ ret.failed = 2
    /\ hostProfiles # {}

\* The table after the rows of hp with a key of profs have been deleted.
AppliedDeletes(hp, profs) ==
    {r \in hp : \A i \in DOMAIN profs : HostProfileKey(profs[i]) # HostProfileKey(r)}

\* C22: in every reachable state, for every list of keys and batch size,
\* BulkDeleteMDMWindowsHostsConfigProfiles with batch k failing returns the
\* error and has deleted exactly the rows of batches 1..k-1.
C22_DeleteCommitsBatchByBatch ==
    \A profs \in BatchPayloads, batchSize \in BatchSizes :
        \A failAt \in 1..NumBatches(Len(profs), batchSize) :
            LET r == BulkDeleteMDMWindowsHostsConfigProfiles(hostProfiles, profs,
                                                             batchSize, failAt)
                before == SubSeq(profs, 1, (failAt - 1) * batchSize)
            IN  /\ r.err = "error"
                /\ r.hostProfiles = AppliedDeletes(hostProfiles, before)

\* C23: in every reachable state, for every input and batch size, each of
\* BulkUpsertMDMWindowsHostProfiles, BulkDeleteMDMWindowsHostsConfigProfiles
\* and bulkSetPendingMDMWindowsHostProfilesDB, no statement failing, leaves
\* the table it leaves when all rows go in one batch; for the last, in
\* whatever orders the two lists are returned.
C23_BatchSizeDoesNotMatter ==
    /\ \A payload \in BatchPayloads, batchSize \in BatchSizes :
          /\ BulkUpsertInBatches(hostProfiles, payload, batchSize, 0)
                = BulkUpsertInBatches(hostProfiles, payload, Len(payload) + 1, 0)
          /\ BulkDeleteMDMWindowsHostsConfigProfiles(hostProfiles, payload,
                                                     batchSize, 0)
                = BulkDeleteMDMWindowsHostsConfigProfiles(hostProfiles, payload,
                                                          Len(payload) + 1, 0)
    /\ \A uuids \in SUBSET HostUUIDs :
          LET toInstall == listMDMWindowsProfilesToInstallDB(hostProfiles, uuids)
              toRemove == listMDMWindowsProfilesToRemoveDB(hostProfiles, uuids)
              all == Cardinality(toInstall) + Cardinality(toRemove) + 1
          IN  \A i1, i2 \in RowOrders(toInstall), r1, r2 \in RowOrders(toRemove) :
                  \A deleteBatchSize, upsertBatchSize \in BatchSizes :
                      bulkSetPendingInBatches(hostProfiles, uuids, i1, r1,
                                              deleteBatchSize, upsertBatchSize)
                          = bulkSetPendingInBatches(hostProfiles, uuids, i2, r2,
                                                    all, all)

\* A bulk upsert sent three rows of one key in several statements, none of
\* which failed.
C23_Witness ==
    /\ ret.op = "BulkUpsert"
    /\ ret.err = "ok"
    /\ ret.rows = 3
    /\ ret.batches >= 2
    /\ Cardinality(hostProfiles) = 1

\* C24: in every reachable state, for every host whose host_mdm row says it
\* is not a server and whose key row has a non-empty client error, at every
\* time the Failed predicate holds and none of the Verified, Verifying and
\* Enforcing predicates does, and with the policy enabled
\* GetMDMWindowsBitLockerStatus returns failed.
C24_ClientErrorMeansFailed ==
    \A h \in hosts, t \in Times, nullScan \in NullScanOutcomes :
        LET j == JoinedRow(h.uuid)
            r == GetMDMWindowsBitLockerStatus(HostStruct(h), t, nullScan)
        IN  (whereNotServer(j) /\ whereClientError(j))
            => /\ whereBitLockerStatus(DiskEncryptionFailed, j, t)
               /\ ~whereBitLockerStatus(DiskEncryptionVerified, j, t)
               /\ ~whereBitLockerStatus(DiskEncryptionVerifying, j, t)
               /\ ~whereBitLockerStatus(DiskEncryptionEnforcing, j, t)
               /\ getConfigEnableDiskEncryption(h.team_id)
                     => r.err = "ok" /\ r.status = DiskEncryptionFailed

\* The status of H1 was returned as failed while H1 has a decryptable key,
\* a client error and a disk reported encrypted after the key.
C24_Witness ==
    /\ ret.op = "Status"
    /\ ret.host = "H1"
    /\ ret.status = DiskEncryptionFailed
    /\ LET j == JoinedRow("H1")
       IN  /\ whereKeyAvailable(j)
           /\ whereEncrypted(j)
           /\ whereHostDisksUpdated(j)
           /\ whereClientError(j)

\* C25: in every reachable state, a host that is not a server, has no
\* client error, has a key available stored at T0 and a disk reported not
\* encrypted at Td >= T0 is, at the time of the query, Verifying if
\* Td <= T0 + 1 hour and Enforcing if Td is later.
C25_GraceWindowOfTheDiskTimestamp ==
    \A h \in hosts :
        LET j == JoinedRow(h.uuid)
        IN  \A hdek \in j.hdek, hd \in j.hd :
                (/\ whereNotServer(j)
                 /\ ~whereClientError(j)
                 /\ whereKeyAvailable(j)
                 /\ hd.encrypted = "0"
                 /\ hd.updated_at >= hdek.updated_at)
                => BitLockerCaseStatus(j, now)
                      = IF hd.updated_at <= hdek.updated_at + IntervalOneHour
                        THEN DiskEncryptionVerifying
                        ELSE DiskEncryptionEnforcing

\* The field of a summary that counts a status.
SummaryCount(summary, status) ==
    CASE status = DiskEncryptionVerified -> summary.verified
      [] status = DiskEncryptionVerifying -> summary.verifying
      [] status = DiskEncryptionEnforcing -> summary.enforcing
      [] status = DiskEncryptionFailed -> summary.failed

\* C26: in every reachable state, for every team scope with the policy
\* enabled and every status, the count of GetMDMWindowsBitLockerSummary
\* equals the number of hosts of the scope for which
\* GetMDMWindowsBitLockerStatus returns that status at the same time.
C26_SummaryAgreesWithStatus ==
    \A teamID \in {NULL, "0", "1"}, status \in DiskEncryptionStatuses :
        getConfigEnableDiskEncryption(teamID)
        => \A nullScan \in NullScanOutcomes :
              SummaryCount(GetMDMWindowsBitLockerSummary(teamID), status)
                = Cardinality(
                    {h \in hosts :
                        /\ BitLockerTeamFilter(h, teamID)
                        /\ LET r == GetMDMWindowsBitLockerStatus(HostStruct(h),
                                                                 now, nullScan)
                           IN  r.err = "ok" /\ r.status = status})

\* C27: in every reachable state, GetMDMWindowsBitLockerStatus returns nil
\* without error exactly for the hosts whose scope has the policy disabled
\* or that are servers, returns one of the four statuses without error for
\* every other host, enforcing if the host has no signal row, and
\* GetMDMWindowsBitLockerSummary returns zero counts for a scope with the
\* policy disabled.
C27_StatusIsTotal ==
    /\ \A h \in hosts, nullScan \in NullScanOutcomes :
          LET r == GetMDMWindowsBitLockerStatus(HostStruct(h), now, nullScan)
              j == JoinedRow(h.uuid)
              noStatus == \/ ~getConfigEnableDiskEncryption(h.team_id)
                          \/ \E hmdm \in j.hmdm : hmdm.is_server = "1"
          IN  /\ r.err = "ok"
              /\ IF noStatus THEN r.status = NULL
                 ELSE r.status \in DiskEncryptionStatuses
              /\ (~noStatus /\ j.hmdm = {} /\ j.hdek = {} /\ j.hd = {})
                    => r.status = DiskEncryptionEnforcing
    /\ \A teamID \in {NULL, "0", "1"} :
          ~getConfigEnableDiskEncryption(teamID)
          => GetMDMWindowsBitLockerSummary(teamID)
                = [verified |-> 0, verifying |-> 0, enforcing |-> 0, failed |-> 0]

\* The order Failed < Pending < Verifying < Verified
BucketRank(bucket) ==
    CASE bucket = "failed" -> 0
      [] bucket = "pending" -> 1
      [] bucket = "verifying" -> 2
      [] bucket = "verified" -> 3

WorseBucket(d, e) == IF BucketRank(d) <= BucketRank(e) THEN d ELSE e

\* The delivery status d of a host with profile rows that give one.
DeliveryBucket(h) ==
    CASE ProfilesStatus(h) = "profiles_failed" -> "failed"
      [] ProfilesStatus(h) = "profiles_pending" -> "pending"
      [] ProfilesStatus(h) = "profiles_verifying" -> "verifying"
      [] ProfilesStatus(h) = "profiles_verified" -> "verified"

\* The disk encryption class e of a host that is not a server, Enforcing
\* read as pending.
DiskEncryptionBucket(h) ==
    LET status == BitLockerCaseStatus(JoinedRow(h.uuid), now)
    IN  IF status = DiskEncryptionEnforcing THEN "pending" ELSE status

\* The bucket of a counted host: the worse of d and e, e alone for a host
\* without delivery status.
MergedBucket(h) ==
    IF ProfilesStatus(h) = "" THEN DiskEncryptionBucket(h)
    ELSE WorseBucket(DeliveryBucket(h), DiskEncryptionBucket(h))

\* C28: in every reachable state, for every counted host with a delivery
\* status d and a disk encryption class e the status column of the merged
\* query is the bucket of the merge rule, which is the worse of d and e; and
\* for a scope with disk encryption enabled GetMDMWindowsProfilesSummary
\* counts every host of the rows in exactly the bucket of that host.
C28_MergeIsTheWorseOfBoth ==
    /\ \A h \in StatusCountsHosts(NULL) :
          ProfilesStatus(h) # ""
          => LET d == DeliveryBucket(h)
                 e == DiskEncryptionBucket(h)
                 b == ProfilesAndBitLockerStatus(ProfilesStatus(h),
                                                 BitlockerStatus(h))
             IN  /\ b = WorseBucket(d, e)
                 /\ d = "failed" => b = "failed"
                 /\ d = "pending"
                       => b = IF e = "failed" THEN "failed" ELSE "pending"
                 /\ d = "verifying"
                       => b = IF e = "failed" THEN "failed"
                              ELSE IF e = "pending" THEN "pending"
                              ELSE "verifying"
                 /\ d = "verified" => b = e
    /\ \A teamID \in {NULL, "0", "1"} :
          getConfigEnableDiskEncryption(teamID)
          => LET r == GetMDMWindowsProfilesSummary(teamID)
                 n(b) == Cardinality({h \in StatusCountsHosts(teamID) :
                                         MergedBucket(h) = b})
             IN  /\ r.err = "ok"
                 /\ r.failed = n("failed")
                 /\ r.pending = n("pending")
                 /\ r.verifying = n("verifying")
                 /\ r.verified = n("verified")
                 /\ r.failed + r.pending + r.verifying + r.verified
                       = Cardinality(StatusCountsHosts(teamID))

\* The summary of the hosts of no team counted H1, whose profiles are
\* verifying and whose disk encryption is enforcing, as pending, and H2,
\* whose profile is verified, as verified.
C28_Witness ==
    /\ ret.op = "ProfilesSummary"
    /\ ret.teamID = NULL
    /\ getConfigEnableDiskEncryption(NULL)
    /\ Cardinality(StatusCountsHosts(NULL)) = 2
    /\ \E h \in hosts :
          /\ h.uuid = "H1"
          /\ ProfilesStatus(h) = "profiles_verifying"
          /\ BitlockerStatus(h) = "bitlocker_pending"
    /\ ret.summary.err = "ok"
    /\ ret.summary.pending = 1
    /\ ret.summary.verified = 1

\* C29: in every reachable state, for every host GetHostMDMWindowsProfiles
\* returns exactly the rows of the host that are not a remove with status
\* verifying or verified, a NULL status reported as pending and every other
\* status as stored.
C29_HostViewExact ==
    \A hostUUID \in HostUUIDs :
        GetHostMDMWindowsProfiles(hostProfiles, hostUUID)
          = {[profile_uuid |-> r.profile_uuid,
              name |-> r.profile_name,
              status |-> IF r.status = NULL THEN MDMDeliveryPending ELSE r.status,
              operation_type |-> Coalesce(r.operation_type, ""),
              detail |-> Coalesce(r.detail, "")]
                : r \in {x \in hostProfiles :
                            /\ x.host_uuid = hostUUID
                            /\ ~(/\ x.operation_type = MDMOperationTypeRemove
                                 /\ x.status \in {MDMDeliveryVerifying,
                                                  MDMDeliveryVerified})}}

\* The row of a key, as a set.
RowsOfKey(hp, k) == {r \in hp : HostProfileKey(r) = k}

\* C30: in every reachable state, for every profile uuid P and host H with
\* enrolled device D:
\* - if P is assigned to the team of H and there is no row (P,H), the install
\*   list contains (P,H) and bulkSetPendingMDMWindowsHostProfilesDB leaves the
\*   row (P,H) with operation install and status NULL;
\* - if the row (P,H) is pending with the stored command C, a response of D
\*   with an atomic Status 200 for C is saved and leaves the row verifying;
\* - if the row is verifying, the upsert of the verifier leaves it verified;
\* - if P is not assigned to the team of H and the row (P,H) exists, the
\*   remove list contains it and bulkSetPendingMDMWindowsHostProfilesDB
\*   deletes it.
C30_ConvergenceTrace ==
    \A P \in ProfileUUIDs, e \in enrollments :
        LET H == e.host_uuid
            k == <<P, H>>
            rows == RowsOfKey(hostProfiles, k)
            assigned == k \in DesiredPairs({H})
            applied == bulkSetPendingMDMWindowsHostProfilesDB(hostProfiles, {H})
        IN  /\ (assigned /\ rows = {})
               => /\ k \in HostProfileKeys(
                             listMDMWindowsProfilesToInstallDB(hostProfiles, {H}))
                  /\ \E r \in RowsOfKey(applied, k) :
                        /\ r.operation_type = MDMOperationTypeInstall
                        /\ r.status = NULL
            /\ \A r \in rows, fullResponse \in RaceResponses :
                  (/\ r.operation_type = MDMOperationTypeInstall
                   /\ r.status = MDMDeliveryPending
                   /\ r.command_uuid \in CommandUUIDs
                   /\ fullResponse.ops[1].CmdRef = r.command_uuid
                   /\ fullResponse.ops[1].Data = "200")
                  => LET s == MDMWindowsSaveResponse(e.mdm_device_id, fullResponse)
                     IN  /\ s.err = "ok"
                         /\ \E x \in RowsOfKey(s.hostProfiles, k) :
                               x.status = MDMDeliveryVerifying
            /\ \A r \in rows :
                  r.status = MDMDeliveryVerifying
                  => [r EXCEPT !.status = MDMDeliveryVerified]
                        \in BulkUpsertMDMWindowsHostProfiles(hostProfiles,
                                <<[r EXCEPT !.status = MDMDeliveryVerified]>>)
            /\ (~assigned /\ rows # {})
               => /\ rows \subseteq listMDMWindowsProfilesToRemoveDB(hostProfiles, {H})
                  /\ RowsOfKey(applied, k) = {}

\* The row (P1,H1) went from not dispatched to verified through a saved
\* response of H1, P1 has then been deleted, and the row is still stored: the
\* next reconciliation is the one that deletes it.
C30_Witness ==
    /\ ret.op = "DeleteProfile"
    /\ ret.err = "ok"
    /\ profiles = {}
    /\ \E r \in RowsOfKey(hostProfiles, <<"P1", "H1">>) :
          r.status = MDMDeliveryVerified
    /\ \E x \in results : x.enrollment_id = 1 /\ x.command_uuid = "C1"

\* The rows of a hardware identifier.
EnrollmentsOfHardware(enr, w) == {e \in enr : e.mdm_hardware_id = w}

MatchedAtomicUUIDs(fullResponse) ==
    {u \in TrackedCmdUUIDs(fullResponse.ops) \cap CommandUUIDs :
        /\ HasOpFor(fullResponse.ops, CmdStatus, u)
        /\ LastOpFor(fullResponse.ops, CmdStatus, u).Data # NULL
        /\ LastOpFor(fullResponse.ops, CmdStatus, u).Cmd = CmdAtomic}

\* C32: in every reachable state, for every enrolled device and every
\* response with an atomic-class Status with data for a matched command,
\* when no host profile row of the responding host carries the command uuid
\* of such a Status (whatever other rows the host has, rows with an empty
\* command uuid included), MDMWindowsSaveResponse succeeds, has a result row
\* for every matched command and leaves no queue entry of the enrollment for
\* a matched command.
C32_CorrelationWithoutMatchingRows ==
    \A e \in enrollments, fullResponse \in FullResponses :
        LET atomic == MatchedAtomicUUIDs(fullResponse)
            matched == TrackedCmdUUIDs(fullResponse.ops) \cap CommandUUIDs
            r == MDMWindowsSaveResponse(e.mdm_device_id, fullResponse)
        IN  (/\ fullResponse.Raw # ""
             /\ atomic # {}
             /\ ~ \E x \in hostProfiles :
                    x.host_uuid = e.host_uuid /\ x.command_uuid \in atomic)
            => /\ r.err = "ok"
               /\ \A u \in matched :
                     /\ HasResult(r.results, e.id, u)
                     /\ ~ \E q \in r.queue :
                            q.enrollment_id = e.id /\ q.command_uuid = u

\* The row of a table with the key of a given row, as a set.
SameKeyRows(hp, x) == {y \in hp : HostProfileKey(y) = HostProfileKey(x)}

C34_ResultPointsAtLatestResponse ==
    \A e \in enrollments, fullResponse \in FullResponses :
        LET r == MDMWindowsSaveResponse(e.mdm_device_id, fullResponse)
            matched == TrackedCmdUUIDs(fullResponse.ops) \cap CommandUUIDs
        IN  (r.err = "ok" /\ matched # {})
            => /\ Len(r.responses) = Len(responses) + 1
               /\ r.responses[Len(r.responses)].enrollment_id = e.id
               /\ \A x \in r.results :
                     (x.enrollment_id = e.id /\ x.command_uuid \in matched)
                     => x.response_id = Len(r.responses)

\* C35: in every reachable state, for every host whose host_mdm row says it
\* is not a server, whatever key row and disk row it has or lacks, and at
\* every time, exactly one of the Verified, Verifying, Enforcing and Failed
\* predicates holds; without a client error and without an available key it
\* is the Enforcing predicate.
C35_PredicatesPartition ==
    \A h \in hosts, t \in Times :
        LET j == JoinedRow(h.uuid)
        IN  whereNotServer(j)
            => /\ Cardinality({s \in DiskEncryptionStatuses :
                                  whereBitLockerStatus(s, j, t)}) = 1
               /\ (~whereClientError(j) /\ ~whereKeyAvailable(j))
                  => whereBitLockerStatus(DiskEncryptionEnforcing, j, t)

\* The status of H1 was returned as verifying while H1 has a key and a disk
\* reported not encrypted after the key, within the hour after the key.
C35_Witness ==
    /\ ret.op = "Status"
    /\ ret.host = "H1"
    /\ ret.status = DiskEncryptionVerifying
    /\ LET j == JoinedRow("H1")
       IN  /\ whereKeyAvailable(j)
           /\ ~whereEncrypted(j)
           /\ whereHostDisksUpdated(j)
           /\ withinGracePeriod(j, now)

\* The delivery bucket of a host by the rule of the worst row: failed with a
\* failed row; else pending with a row not dispatched or pending; else
\* verifying with an install row verifying and every install row verifying
\* or verified; else verified with install rows that are all verified; else
\* none.
WorstRowBucket(h) ==
    LET rows == {r \in hostProfiles : r.host_uuid = h.uuid}
        installs == {r \in rows : r.operation_type = MDMOperationTypeInstall}
    IN  IF \E r \in rows : r.status = MDMDeliveryFailed THEN "failed"
        ELSE IF \E r \in rows : r.status \in {NULL, MDMDeliveryPending}
        THEN "pending"
        ELSE IF /\ \E r \in installs : r.status = MDMDeliveryVerifying
                /\ \A r \in installs :
                      r.status \in {MDMDeliveryVerifying, MDMDeliveryVerified}
        THEN "verifying"
        ELSE IF installs # {} /\ \A r \in installs : r.status = MDMDeliveryVerified
        THEN "verified"
        ELSE ""

\* C36: in every reachable state the delivery status the summary queries
\* compute for a host is the bucket of its worst row, and for a scope
\* without disk encryption GetMDMWindowsProfilesSummary succeeds and counts
\* in each bucket exactly the enrolled, non-server windows hosts of the scope
\* with that bucket, so that a host without a bucket is in no count.
C36_DeliveryStatusIsTheWorstRow ==
    /\ \A h \in hosts :
          ProfilesOnlyStatus(ProfilesStatus(h)) = WorstRowBucket(h)
    /\ \A teamID \in {NULL, "0", "1"} :
          ~getConfigEnableDiskEncryption(teamID)
          => LET r == GetMDMWindowsProfilesSummary(teamID)
                 n(b) == Cardinality({h \in StatusCountsHosts(teamID) :
                                         WorstRowBucket(h) = b})
             IN  /\ r.err = "ok"
                 /\ r.failed = n("failed")
                 /\ r.pending = n("pending")
                 /\ r.verifying = n("verifying")
                 /\ r.verified = n("verified")
                 /\ r.failed + r.pending + r.verifying + r.verified
                       = Cardinality(StatusCountsHosts(teamID)) - n("")

\* Without disk encryption, the summary of the hosts of no team counted H1,
\* which has an install row verifying and an install row verified, as
\* verifying, and did not count H2, which has no row.
C36_Witness ==
    /\ ret.op = "ProfilesSummary"
    /\ ret.teamID = NULL
    /\ ~getConfigEnableDiskEncryption(NULL)
    /\ Cardinality(StatusCountsHosts(NULL)) = 2
    /\ \E r \in hostProfiles :
          /\ r.host_uuid = "H1"
          /\ r.operation_type = MDMOperationTypeInstall
          /\ r.status = MDMDeliveryVerifying
    /\ \E r \in hostProfiles :
          /\ r.host_uuid = "H1"
          /\ r.operation_type = MDMOperationTypeInstall
          /\ r.status = MDMDeliveryVerified
    /\ ~ \E r \in hostProfiles : r.host_uuid = "H2"
    /\ ret.summary = [err |-> "ok", failed |-> 0, pending |-> 0,
                      verifying |-> 1, verified |-> 0]

\* C37: in every reachable state and for every host filter,
\* bulkSetPendingMDMWindowsHostProfilesDB leaves the rows of the hosts
\* outside the filter as they are, and with an empty filter it leaves the
\* whole table as it is, whatever the two lists without a filter contain.
C37_ApplyPendingFrame ==
    \A uuids \in SUBSET ReconcileHostUUIDs :
        LET applied == bulkSetPendingMDMWindowsHostProfilesDB(hostProfiles, uuids)
        IN  /\ {r \in applied : r.host_uuid \notin uuids}
                  = {r \in hostProfiles : r.host_uuid \notin uuids}
            /\ uuids = {} => applied = hostProfiles

\* The reconciler has just deleted rows of the hosts of its filter, and a
\* host outside the filter still has a row to remove and lacks a row of a
\* profile of its team.
C37_Witness ==
    /\ ret.op = "ApplyPending"
    /\ ret.removed
    /\ listMDMWindowsProfilesToRemoveDB(hostProfiles, {}) # {}
    /\ DesiredPairs({}) \ HostProfileKeys(hostProfiles) # {}

====
